---- MODULE Spec2Model ----
(***************************************************************************)
(* Model of the deferred-resolution Scaffold bus (api/scaffold/bus.py):    *)
(* the Operation classes, the ScaffoldBus operation pipeline with its FIFO *)
(* shadow counter, the buffer-wait sections and the timeout stack.         *)
(*                                                                         *)
(* The heap of Operation objects is the function objs (identifier ->       *)
(* object); the bus queues hold identifiers, as the Python lists hold      *)
(* references.  Every public call is one action; the bytes it exchanges    *)
(* with the transport during the call are recorded in wire.                *)
(***************************************************************************)
EXTENDS Integers, Sequences, FiniteSets, TLC

\* ------------------------------------------------------------------ bounds
\* Number of Operation objects created in one behaviour.
MaxOps == 3
\* Deepest nesting of buffer-wait sections explored.
MaxDepth == 2
\* Deepest timeout stack explored.
MaxStack == 2
\* Most writes pending in the lazy sections of the bus of ArchBase.
MaxLazy == 5
\* Operations created in the runs that look at datagram encodings only.
EncOps == 2

\* ------------------------------------------------------- program constants
MAX_CHUNK == 255
FIFO_SIZE == 512

\* A Python value that may be None: the empty tuple, or <<value>>.
None == <<>>
Some(x) == <<x>>
Val(o) == o[1]
NoExc == "none"

\* ------------------------------------------------------------------- inputs
\* Hardware revisions, as the character codes of the version string.
V08 == <<48, 46, 56>>
V09 == <<48, 46, 57>>
V010 == <<48, 46, 49, 48>>
Versions == {V08, V09, V010}

Addrs == {16}
PollArg == [addr : {1024}, mask : {255}, value : {1}]
Polls == {None} \cup {Some(p) : p \in PollArg}
\* Payload of L bytes handed to Bus.write.
Pattern(L) == [i \in 1..L |-> i % 256]
Poll1 == Some([addr |-> 1024, mask |-> 255, value |-> 1])
\* <<size, poll, tmo>>: tmo is the chunk the device lets time out, 0 if none.
WriteCases == {<<255, None, 0>>, <<1, Poll1, 0>>, <<1, Poll1, 1>>}
ReadCases == {<<1, None, 0>>, <<1, Poll1, 1>>}
\* Lengths on both sides of one, two and three chunks.
ChunkLens == {1, 255, 256, 511}
WriteChunkCases == {<<L, None, 0>> : L \in ChunkLens} \cup {<<2, Poll1, 1>>}
ReadChunkCases ==
    {<<1, None, 0>>, <<256, None, 0>>, <<511, None, 0>>, <<255, Poll1, 1>>,
     <<256, Poll1, 2>>}
\* Arguments out of range, next to valid ones: addresses, polling
\* parameters, a read size and delays.
BadAddrs == {65536}
BadPolls == {Some([addr |-> 65536, mask |-> 255, value |-> 1]),
             Some([addr |-> 1024, mask |-> 256, value |-> 1]),
             Some([addr |-> 1024, mask |-> 255, value |-> 256])}
BadSizes == {-1}
BadCycles == {-1, 16777216}
\* Registers: <<mode, address, wideness, min_value, max_value>>, and the
\* values they are set to.
Registers ==
    {<<{"w"}, 16, 2, None, None>>,
     <<{"r", "w"}, 16, 1, Some(1), Some(200)>>,
     <<{"r", "w", "v"}, 16, 1, None, None>>,
     <<{"w", "v"}, 16, 1, None, None>>,
     <<{"r"}, 16, 1, None, None>>,
     <<{"r", "w"}, 16, 2, None, None>>,
     <<{"w", "v"}, 16, 2, None, None>>}
SetInputs == {0, 3, 258, 65536}
\* Arguments of the bit helpers: or_set(value), set_bit(index, value, poll),
\* get_bit(index) and set_mask(value, mask).
OrSetInputs == {0, 5, 256}
SetBitInputs == {<<0, 1, None>>, <<1, 0, None>>, <<7, 2, Poll1>>, <<8, 1, None>>}
GetBitInputs == {0, 1, 7, 8}
SetMaskInputs == {<<255, 15>>, <<0, 3>>, <<170, 255>>, <<511, 256>>}
\* Raw accesses to a register: <<length, poll>>.
RawWrites == {<<1, None>>, <<2, Poll1>>}
RawReads == {<<1, None>>, <<2, Poll1>>}
\* The signals the board declares, in the order of their declaration: the
\* list and the path.  "/dup" names a sink of both matrices, "0" and "1" are
\* sources of both.
Declarations ==
    <<<<"mtxl_in", "0">>, <<"mtxl_in", "1">>, <<"mtxl_in", "/io/a0">>,
      <<"mtxl_out", "/uart0/rx">>, <<"mtxl_out", "/dup">>,
      <<"mtxr_in", "z">>, <<"mtxr_in", "0">>, <<"mtxr_in", "1">>,
      <<"mtxr_in", "/uart0/tx">>,
      <<"mtxr_out", "/io/a0">>, <<"mtxr_out", "/dup">>>>
\* Writes through the bus of ArchBase: <<length, poll, timed out>>.
LegacyWrites == {<<255, Poll1, TRUE>>, <<240, None, FALSE>>}
\* Writes and timeouts of the runs that look at the lazy sections only.
LazyWrites ==
    {<<255, Poll1, TRUE>>, <<2, Poll1, TRUE>>, <<240, None, FALSE>>,
     <<256, None, FALSE>>}
LazyTimeouts == {[t |-> "None", u |-> 0], [t |-> "float", u |-> 10]}
\* The transport write of a flush on which the serial port raises: none, the
\* header of the section, the first or the second operation of the section.
Faults == {0, 1, 2, 3}
\* The writes and the read that fill and drain the FIFO.
\* Operations whose encodings differ in every field: <<addr, size, poll>>,
\* delays and timeouts of three and four significant bytes.
PollX == Some([addr |-> 1027, mask |-> 240, value |-> 33])
EncCases ==
    {<<0, 1, None>>, <<4660, 2, None>>, <<65535, 255, None>>,
     <<4660, 1, PollX>>, <<255, 2, PollX>>, <<256, 255, PollX>>}
EncCycles == {0, 66051, 16777215}
EncUnits == {5, 16909060}
\* Failures of the serial port: <<rank of the write, rank of the read>> that
\* raises during a call.
WriteFaults == {<<1, 0>>, <<2, 0>>, <<0, 1>>}
ReadFaults == {<<1, 0>>, <<0, 1>>, <<0, 2>>}
FifoWrites == {<<255, None, 0>>, <<1, Poll1, 1>>}
FifoReads == {<<1, None, 0>>}
DelayCycles == {70000}
TimeoutUnits == {5}

Min(a, b) == IF a <= b THEN a ELSE b
Max(a, b) == IF a >= b THEN a ELSE b

RECURSIVE Pow256(_)
Pow256(n) == IF n = 0 THEN 1 ELSE 256 * Pow256(n - 1)
\* int.to_bytes(n, "big")
ToBytes(v, n) == [i \in 1..n |-> (v \div Pow256(n - i)) % 256]

\* Python comparison of two strings (sequences of character codes): a >= b.
RECURSIVE StrGE(_, _)
StrGE(a, b) ==
    IF b = <<>> THEN TRUE
    ELSE IF a = <<>> THEN FALSE
    ELSE IF Head(a) # Head(b) THEN Head(a) > Head(b)
    ELSE StrGE(Tail(a), Tail(b))

\* --------------------------------------------------------------- operations
\* The fields an Operation object is built with.  kind is the class.
ReadOp(addr, size, poll) ==
    [kind |-> "read", addr |-> addr, size |-> size, data |-> <<>>,
     poll |-> poll, value |-> 0]
WriteOp(addr, data, poll) ==
    [kind |-> "write", addr |-> addr, size |-> Len(data), data |-> data,
     poll |-> poll, value |-> 0]
TimeoutOp(value) ==
    [kind |-> "timeout", addr |-> 0, size |-> 0, data |-> <<>>,
     poll |-> None, value |-> value]
DelayOp(cycles) ==
    [kind |-> "delay", addr |-> 0, size |-> 0, data |-> <<>>,
     poll |-> None, value |-> cycles]
BufferWaitOp(size) ==
    [kind |-> "buffer_wait", addr |-> 0, size |-> 0, data |-> <<>>,
     poll |-> None, value |-> size]

\* Operation.supported(version)
Supported(op, version) ==
    IF op.kind \in {"delay", "buffer_wait"} THEN StrGE(version, V09) ELSE TRUE

\* datagram_head(rw, size) that puts the size byte before the polling bytes.
DatagramHeadSizeFirst(op, rw, size) ==
    LET command == rw + (IF size > 1 THEN 2 ELSE 0)
                      + (IF op.poll # None THEN 4 ELSE 0)
        head == <<command, op.addr \div 256, op.addr % 256>>
        polling == IF op.poll # None
                   THEN <<Val(op.poll).addr \div 256, Val(op.poll).addr % 256,
                          Val(op.poll).mask, Val(op.poll).value>>
                   ELSE <<>>
        sz == IF size > 1 THEN <<size>> ELSE <<>>
    IN head \o sz \o polling

\* ReadWriteOperation.datagram_head(rw, size)
DatagramHead(op, rw, size) ==
    LET command == rw + (IF size > 1 THEN 2 ELSE 0)
                      + (IF op.poll # None THEN 4 ELSE 0)
        head == <<command, op.addr \div 256, op.addr % 256>>
        polling == IF op.poll # None
                   THEN <<Val(op.poll).addr \div 256, Val(op.poll).addr % 256,
                          Val(op.poll).mask, Val(op.poll).value>>
                   ELSE <<>>
        sz == IF size > 1 THEN <<size>> ELSE <<>>
    IN head \o polling \o sz

\* Operation.datagram()
Datagram(op) ==
    CASE op.kind = "read" -> DatagramHead(op, 0, op.size)
      [] op.kind = "write" -> DatagramHead(op, 1, Len(op.data)) \o op.data
      [] op.kind = "timeout" -> <<8>> \o ToBytes(op.value, 4)
      [] op.kind = "delay" -> <<9>> \o ToBytes(op.value, 3)
      [] op.kind = "buffer_wait" -> <<10>> \o ToBytes(op.value, 2)

\* Operation.response_size()
ResponseSize(op) ==
    CASE op.kind = "read" -> 1 + op.size
      [] op.kind = "write" -> 1
      [] op.kind = "timeout" -> 0
      [] op.kind = "delay" -> 1
      [] op.kind = "buffer_wait" -> 1

\* ------------------------------------------------------------------ objects
\* An Operation object on the heap: the constructor's fields (op), the
\* status and result attributes, whether the caller kept a reference (held),
\* and dev, the completed-count the device answers for this operation.
NewObj(op, dev, held) ==
    [op |-> op, status |-> "PENDING", result |-> None, dev |-> dev,
     held |-> held]

\* The bytes the device sends back for an operation (what ser.read returns).
DeviceResponse(obj) ==
    CASE obj.op.kind = "read" ->
             [i \in 1..obj.op.size |->
                 IF i <= obj.dev THEN (7 * i) % 256 ELSE 0] \o <<obj.dev>>
      [] obj.op.kind = "write" -> <<obj.dev>>
      [] obj.op.kind = "timeout" -> <<>>
      [] obj.op.kind = "delay" -> <<0>>
      [] obj.op.kind = "buffer_wait" -> <<0>>

\* Operation.resolve(data) taking any non-zero count of a write for success.
ResolveObjLoose(obj, data) ==
    IF obj.op.kind = "write"
    THEN [obj |-> [obj EXCEPT !.status = IF data[1] > 0 THEN "COMPLETED"
                                         ELSE "TIMEOUT"],
          exc |-> NoExc]
    ELSE IF obj.op.kind = "read"
    THEN [obj |-> [obj EXCEPT
                     !.result = Some(SubSeq(data, 1, data[Len(data)])),
                     !.status = IF data[Len(data)] = obj.op.size
                                THEN "COMPLETED" ELSE "TIMEOUT"],
          exc |-> NoExc]
    ELSE [obj |-> [obj EXCEPT !.status = "COMPLETED"], exc |-> NoExc]

\* Operation.resolve(data) keeping all the data bytes of a read response.
ResolveObjKeepAll(obj, data) ==
    IF obj.op.kind = "write"
    THEN [obj |-> [obj EXCEPT !.status = IF data[1] = Len(obj.op.data)
                                         THEN "COMPLETED" ELSE "TIMEOUT"],
          exc |-> NoExc]
    ELSE IF obj.op.kind = "read"
    THEN [obj |-> [obj EXCEPT
                     !.result = Some(SubSeq(data, 1, Len(data) - 1)),
                     !.status = IF data[Len(data)] = obj.op.size
                                THEN "COMPLETED" ELSE "TIMEOUT"],
          exc |-> NoExc]
    ELSE [obj |-> [obj EXCEPT !.status = "COMPLETED"], exc |-> NoExc]

\* Operation.resolve(data) that raises the timeout of a write at once, as the
\* bus of ArchBase does.
ResolveObjEager(obj, data) ==
    CASE obj.op.kind = "read" ->
             IF data = <<>> THEN [obj |-> obj, exc |-> "IndexError"]
             ELSE LET size_completed == data[Len(data)]
                      res == SubSeq(data, 1, Min(size_completed, Len(data)))
                  IN IF size_completed = obj.op.size
                     THEN [obj |-> [obj EXCEPT !.result = Some(res),
                                               !.status = "COMPLETED"],
                           exc |-> NoExc]
                     ELSE IF size_completed < obj.op.size
                     THEN [obj |-> [obj EXCEPT !.result = Some(res),
                                               !.status = "TIMEOUT"],
                           exc |-> NoExc]
                     ELSE [obj |-> [obj EXCEPT !.result = Some(res)],
                           exc |-> "AssertionError"]
      [] obj.op.kind = "write" ->
             LET size_completed == data[1]
             IN IF size_completed = Len(obj.op.data)
                THEN [obj |-> [obj EXCEPT !.status = "COMPLETED"],
                      exc |-> NoExc]
                ELSE IF size_completed < Len(obj.op.data)
                THEN [obj |-> [obj EXCEPT !.status = "TIMEOUT"],
                      exc |-> "TimeoutError"]
                ELSE [obj |-> obj, exc |-> "AssertionError"]
      [] obj.op.kind = "timeout" ->
             [obj |-> [obj EXCEPT !.status = "COMPLETED"], exc |-> NoExc]
      [] obj.op.kind \in {"delay", "buffer_wait"} ->
             IF data[1] = 0
             THEN [obj |-> [obj EXCEPT !.status = "COMPLETED"], exc |-> NoExc]
             ELSE [obj |-> obj, exc |-> "AssertionError"]

\* Operation.resolve(data): the object after the call, and the exception
\* raised by it (an assertion that fails, an index out of the response).
ResolveObj(obj, data) ==
    CASE obj.op.kind = "read" ->
             IF data = <<>> THEN [obj |-> obj, exc |-> "IndexError"]
             ELSE LET size_completed == data[Len(data)]
                      res == SubSeq(data, 1, Min(size_completed, Len(data)))
                  IN IF size_completed = obj.op.size
                     THEN [obj |-> [obj EXCEPT !.result = Some(res),
                                               !.status = "COMPLETED"],
                           exc |-> NoExc]
                     ELSE IF size_completed < obj.op.size
                     THEN [obj |-> [obj EXCEPT !.result = Some(res),
                                               !.status = "TIMEOUT"],
                           exc |-> NoExc]
                     ELSE [obj |-> [obj EXCEPT !.result = Some(res)],
                           exc |-> "AssertionError"]
      [] obj.op.kind = "write" ->
             LET size_completed == data[1]
             IN IF size_completed = Len(obj.op.data)
                THEN [obj |-> [obj EXCEPT !.status = "COMPLETED"],
                      exc |-> NoExc]
                ELSE IF size_completed < Len(obj.op.data)
                THEN [obj |-> [obj EXCEPT !.status = "TIMEOUT"],
                      exc |-> NoExc]
                ELSE [obj |-> obj, exc |-> "AssertionError"]
      [] obj.op.kind = "timeout" ->
             [obj |-> [obj EXCEPT !.status = "COMPLETED"], exc |-> NoExc]
      [] obj.op.kind \in {"delay", "buffer_wait"} ->
             IF data[1] = 0
             THEN [obj |-> [obj EXCEPT !.status = "COMPLETED"], exc |-> NoExc]
             ELSE [obj |-> obj, exc |-> "AssertionError"]

\* ---------------------------------------------------------------- the bus
\* Transport events of one public call.
WriteEvent(id, n, c) == [t |-> "write", id |-> id, n |-> n, c |-> c]
ReadEvent(id, n, c) == [t |-> "read", id |-> id, n |-> n, c |-> c]

Raise(s, e) == [s EXCEPT !.exc = e]

\* resolve_next_operation() that forgets to deduct the datagram length.
ResolveNoDeduct(s) ==
    IF s.exc # NoExc THEN s
    ELSE IF s.operations = <<>> THEN Raise(s, "IndexError")
    ELSE
      LET id == Head(s.operations)
          obj == s.objs[id]
          r == ResolveObj(obj, DeviceResponse(obj))
      IN [s EXCEPT !.wire = Append(@, ReadEvent(id, ResponseSize(obj.op),
                                                s.fifo_size)),
                   !.objs[id] = r.obj,
                   !.operations = Tail(@),
                   !.resolved = Append(@, id)]

\* resolve_next_operation() that takes the newest operation of the queue.
ResolveNewest(s) ==
    IF s.exc # NoExc THEN s
    ELSE IF s.operations = <<>> THEN Raise(s, "IndexError")
    ELSE
      LET id == s.operations[Len(s.operations)]
          obj == s.objs[id]
          r == ResolveObj(obj, DeviceResponse(obj))
      IN [s EXCEPT !.wire = Append(@, ReadEvent(id, ResponseSize(obj.op),
                                                s.fifo_size)),
                   !.objs[id] = r.obj,
                   !.fifo_size = @ - Len(Datagram(obj.op)),
                   !.operations = SubSeq(@, 1, Len(@) - 1),
                   !.resolved = Append(@, id)]

\* resolve_next_operation() that reads one byte whatever the operation.
ResolveOneByte(s) ==
    IF s.exc # NoExc THEN s
    ELSE IF s.operations = <<>> THEN Raise(s, "IndexError")
    ELSE
      LET id == Head(s.operations)
          obj == s.objs[id]
          data == SubSeq(DeviceResponse(obj) \o <<0>>, 1, 1)
          r == ResolveObj(obj, data)
          s1 == [s EXCEPT !.wire = Append(@, ReadEvent(id, 1, s.fifo_size)),
                          !.objs[id] = r.obj]
      IN IF r.exc # NoExc THEN Raise(s1, r.exc)
         ELSE [s1 EXCEPT !.fifo_size = @ - Len(Datagram(obj.op)),
                         !.operations = Tail(@),
                         !.resolved = Append(@, id)]

\* ScaffoldBus.resolve_next_operation()
ResolveNextOperation(s) ==
    IF s.exc # NoExc THEN s
    ELSE IF s.operations = <<>> THEN Raise(s, "IndexError")
    ELSE IF s.rfault = 1 THEN Raise([s EXCEPT !.rfault = 0], "SerialException")
    ELSE
      LET id == Head(s.operations)
          obj == s.objs[id]
          n == ResponseSize(obj.op)
          data == SubSeq(DeviceResponse(obj), 1, n)
          r == ResolveObj(obj, data)
          s1 == [s EXCEPT !.wire = Append(@, ReadEvent(id, n, s.fifo_size)),
                          !.objs[id] = r.obj,
                          !.rfault = IF @ > 1 THEN @ - 1 ELSE @]
      IN IF r.exc # NoExc THEN Raise(s1, r.exc)
         ELSE
           LET s2 == [s1 EXCEPT
                         !.fifo_size = @ - Len(Datagram(obj.op)),
                         !.operations = Tail(@),
                         !.resolved = Append(@, id)]
           IN IF s2.operations = <<>> /\ s2.fifo_size # 0
              THEN Raise(s2, "AssertionError") ELSE s2

\* __require_fifo_space(size) that empties the queue once it has to wait.
RECURSIVE RequireFifoSpaceAll(_, _)
RequireFifoSpaceAll(s, size) ==
    IF s.exc # NoExc THEN s
    ELSE IF FIFO_SIZE - s.fifo_size < size
    THEN RequireFifoSpaceAll(ResolveNextOperation(s), FIFO_SIZE)
    ELSE s

\* __require_fifo_space(size) that never waits.
RequireNothing(s, size) == s

\* ScaffoldBus.__require_fifo_space(size)
RECURSIVE RequireFifoSpace(_, _)
RequireFifoSpace(s, size) ==
    IF s.exc # NoExc THEN s
    ELSE IF FIFO_SIZE - s.fifo_size < size
    THEN RequireFifoSpace(ResolveNextOperation(s), size)
    ELSE s

\* operation(op) that ignores open buffer-wait sections.
OperationUnbuffered(s, id) ==
    IF s.exc # NoExc THEN s
    ELSE IF ~s.connected THEN Raise(s, "RuntimeError")
    ELSE LET datagram == Datagram(s.objs[id].op)
             s1 == RequireFifoSpace(s, Len(datagram))
         IN IF s1.exc # NoExc THEN s1
            ELSE [s1 EXCEPT
                    !.wire = Append(@, WriteEvent(id, Len(datagram),
                                                  s1.fifo_size)),
                    !.objs[id].status = "SENT",
                    !.operations = Append(@, id),
                    !.sent = Append(@, id),
                    !.fifo_size = @ + Len(datagram)]

\* operation(op) that queues and counts the operation before it writes it.
OperationQueueFirst(s, id) ==
    IF s.exc # NoExc THEN s
    ELSE IF ~s.connected THEN Raise(s, "RuntimeError")
    ELSE IF s.version = None THEN Raise(s, "AssertionError")
    ELSE IF ~Supported(s.objs[id].op, Val(s.version)) THEN Raise(s, "RuntimeError")
    ELSE IF s.buffer_wait_stack = 0
    THEN LET datagram == Datagram(s.objs[id].op)
         IN IF ~(Len(datagram) < FIFO_SIZE) THEN Raise(s, "AssertionError")
            ELSE LET s1 == RequireFifoSpace(s, Len(datagram))
                 IN IF s1.exc # NoExc THEN s1
                    ELSE IF s1.fault = 1
                    THEN Raise([s1 EXCEPT !.fault = 0,
                                          !.objs[id].status = "SENT",
                                          !.operations = Append(@, id),
                                          !.fifo_size = @ + Len(datagram)],
                               "SerialException")
                    ELSE [s1 EXCEPT
                            !.wire = Append(@, WriteEvent(id, Len(datagram),
                                                          s1.fifo_size)),
                            !.objs[id].status = "SENT",
                            !.operations = Append(@, id),
                            !.sent = Append(@, id),
                            !.fifo_size = @ + Len(datagram),
                            !.fault = IF @ > 1 THEN @ - 1 ELSE @]
    ELSE [s EXCEPT !.buffer_wait_operations = Append(@, id)]

\* ScaffoldBus.operation(op), op being the object objs[id]
Operation(s, id) ==
    IF s.exc # NoExc THEN s
    ELSE IF ~s.connected THEN Raise(s, "RuntimeError")
    ELSE IF s.version = None THEN Raise(s, "AssertionError")
    ELSE IF ~Supported(s.objs[id].op, Val(s.version)) THEN Raise(s, "RuntimeError")
    ELSE IF s.buffer_wait_stack = 0
    THEN LET datagram == Datagram(s.objs[id].op)
         IN IF ~(Len(datagram) < FIFO_SIZE) THEN Raise(s, "AssertionError")
            ELSE LET s1 == RequireFifoSpace(s, Len(datagram))
                 IN IF s1.exc # NoExc THEN s1
                    ELSE IF s1.fault = 1
                    THEN Raise([s1 EXCEPT !.fault = 0], "SerialException")
                    ELSE [s1 EXCEPT
                            !.wire = Append(@, WriteEvent(id, Len(datagram),
                                                          s1.fifo_size)),
                            !.objs[id].status = "SENT",
                            !.operations = Append(@, id),
                            !.sent = Append(@, id),
                            !.fifo_size = @ + Len(datagram),
                            !.fault = IF @ > 1 THEN @ - 1 ELSE @]
    ELSE [s EXCEPT !.buffer_wait_operations = Append(@, id)]

\* Construction of an Operation object: a new entry of the heap.
Alloc(s, op, dev, held) ==
    [s EXCEPT !.objs = Append(@, NewObj(op, dev, held))]
LastId(s) == Len(s.objs)

\* TimeoutError.__init__(data, size, expected)
TimeoutErrorInit(data, size, expected) ==
    [data |-> data, expected |-> expected,
     size |-> IF data # None THEN Some(Len(Val(data))) ELSE size]
NoErr == [data |-> None, expected |-> None, size |-> None]

\* ReadWriteOperation.__init__(addr): the exception it raises, if any.
ReadWriteInitExc(addr) ==
    IF addr \notin 0..65535 THEN "ValueError" ELSE NoExc
\* ReadWriteOperation.set_polling(addr, mask, value), poll being given.
SetPollingExc(poll) ==
    IF poll = None THEN NoExc
    ELSE IF Val(poll).addr \notin 0..65535 THEN "ValueError"
    ELSE IF Val(poll).mask \notin 0..255 THEN "ValueError"
    ELSE IF Val(poll).value \notin 0..255 THEN "ValueError"
    ELSE NoExc
\* WriteOperation.__init__(addr, data)
WriteInitExc(addr, data) ==
    IF ReadWriteInitExc(addr) # NoExc THEN ReadWriteInitExc(addr)
    ELSE IF Len(data) = 0 THEN "ValueError"
    ELSE IF Len(data) > 255 THEN "ValueError"
    ELSE NoExc

\* The completed-count the device reports for chunk number idx of a call:
\* all of it, unless the call polls and tmo names this chunk, which then
\* times out half way.
DevCount(poll, tmo, idx, chunk_size) ==
    IF poll # None /\ tmo = idx THEN chunk_size \div 2 ELSE chunk_size

\* wait() that resolves one operation instead of looping.
WaitOnce(s, id) ==
    IF s.exc # NoExc THEN s
    ELSE IF s.objs[id].status = "SENT" THEN ResolveNextOperation(s)
    ELSE s

\* Operation.wait()
RECURSIVE WaitLoop(_, _)
WaitLoop(s, id) ==
    IF s.exc # NoExc THEN s
    ELSE IF s.objs[id].status = "SENT"
    THEN WaitLoop(ResolveNextOperation(s), id)
    ELSE s
Wait(s, id) ==
    IF s.exc # NoExc THEN s
    ELSE IF s.objs[id].status = "PENDING" THEN Raise(s, "RuntimeError")
    ELSE WaitLoop(s, id)

\* result that waits only for operations that poll.
ResultLazy(s, id) ==
    IF s.exc # NoExc THEN s
    ELSE IF s.objs[id].op.poll = None THEN [s EXCEPT !.ret = Some(<<>>)]
    ELSE LET s1 == Wait(s, id)
         IN IF s1.exc # NoExc THEN s1
            ELSE IF s1.objs[id].status = "COMPLETED"
            THEN [s1 EXCEPT !.ret = s1.objs[id].result]
            ELSE [s1 EXCEPT !.exc = "TimeoutError",
                            !.err = TimeoutErrorInit(s1.objs[id].result, None,
                                                     Some(s1.objs[id].op.size))]

\* ReadOperation.result: s.ret is the value returned.
Result(s, id) ==
    LET s1 == Wait(s, id)
    IN IF s1.exc # NoExc THEN s1
       ELSE IF s1.objs[id].status = "COMPLETED"
       THEN [s1 EXCEPT !.ret = s1.objs[id].result]
       ELSE IF s1.objs[id].status = "TIMEOUT"
       THEN [s1 EXCEPT !.exc = "TimeoutError",
                       !.err = TimeoutErrorInit(s1.objs[id].result, None,
                                                Some(s1.objs[id].op.size))]
       ELSE Raise(s1, "RuntimeError")

\* ScaffoldBus.delay(cycles)
BusDelay(s, cycles) ==
    IF cycles \notin 0..16777215 THEN Raise(s, "ValueError")
    ELSE LET s1 == Alloc(s, DelayOp(cycles), 0, FALSE)
         IN Operation(s1, LastId(s1))

\* write() whose loop does not advance the offset into data.
RECURSIVE WriteLoopSameChunk(_, _, _, _, _, _, _, _)
WriteLoopSameChunk(s, addr, data, poll, tmo, offset, remaining, idx) ==
    IF s.exc # NoExc \/ remaining = 0 THEN s
    ELSE
      LET chunk_size == Min(MAX_CHUNK, remaining)
          chunk == SubSeq(data, 1, chunk_size)
          s1 == Alloc(s, WriteOp(addr, chunk, poll),
                      DevCount(poll, tmo, idx, chunk_size), FALSE)
          s2 == Operation(s1, LastId(s1))
      IN WriteLoopSameChunk(s2, addr, data, poll, tmo, offset + chunk_size,
                            remaining - chunk_size, idx + 1)

\* ScaffoldBus.write(addr, data, poll, poll_mask, poll_value): the loop,
\* idx counting the chunks.
RECURSIVE WriteLoop(_, _, _, _, _, _, _, _)
WriteLoop(s, addr, data, poll, tmo, offset, remaining, idx) ==
    IF s.exc # NoExc \/ remaining = 0 THEN s
    ELSE
      LET chunk_size == Min(MAX_CHUNK, remaining)
          chunk == SubSeq(data, offset + 1, offset + chunk_size)
      IN IF WriteInitExc(addr, chunk) # NoExc
         THEN Raise(s, WriteInitExc(addr, chunk))
         ELSE IF SetPollingExc(poll) # NoExc
         THEN Raise(s, SetPollingExc(poll))
         ELSE
           LET s1 == Alloc(s, WriteOp(addr, chunk, poll),
                           DevCount(poll, tmo, idx, chunk_size), FALSE)
               s2 == Operation(s1, LastId(s1))
           IN WriteLoop(s2, addr, data, poll, tmo, offset + chunk_size,
                        remaining - chunk_size, idx + 1)
BusWrite(s, addr, data, poll, tmo) ==
    WriteLoop(s, addr, data, poll, tmo, 0, Len(data), 1)

\* ScaffoldBus.read(addr, size, poll, poll_mask, poll_value): the loop;
\* s.ret accumulates result.
RECURSIVE ReadLoop(_, _, _, _, _, _, _)
ReadLoop(s, addr, poll, tmo, offset, remaining, idx) ==
    IF s.exc # NoExc \/ remaining = 0 THEN s
    ELSE
      LET chunk_size == Min(MAX_CHUNK, remaining)
      IN IF ReadWriteInitExc(addr) # NoExc
         THEN Raise(s, ReadWriteInitExc(addr))
         ELSE IF SetPollingExc(poll) # NoExc
         THEN Raise(s, SetPollingExc(poll))
         ELSE
           LET s1 == Alloc(s, ReadOp(addr, chunk_size, poll),
                           DevCount(poll, tmo, idx, chunk_size), FALSE)
               s2 == Operation(s1, LastId(s1))
               s3 == Result([s2 EXCEPT !.ret = None], LastId(s1))
               s4 == IF s3.exc # NoExc THEN [s3 EXCEPT !.ret = None]
                     ELSE [s3 EXCEPT !.ret = Some(Val(s.ret) \o Val(s3.ret))]
           IN ReadLoop(s4, addr, poll, tmo, offset + chunk_size,
                       remaining - chunk_size, idx + 1)
\* read() that refuses to work inside a buffer-wait section.
BusReadGuarded(s, addr, size, poll, tmo) ==
    IF s.buffer_wait_stack > 0 THEN Raise(s, "RuntimeError")
    ELSE ReadLoop([s EXCEPT !.ret = Some(<<>>)], addr, poll, tmo, 0, size, 1)
BusRead(s, addr, size, poll, tmo) ==
    ReadLoop([s EXCEPT !.ret = Some(<<>>)], addr, poll, tmo, 0, size, 1)

\* ----------------------------------------------------------------- timeout
\* Values of the timeout property.  A duration in seconds is the float
\* u * timeout_unit, written TSec(u); TErr is the RuntimeError object the
\* getter returns (it does not raise it) while nothing is cached.
TNone == [t |-> "None", u |-> 0]
TErr == [t |-> "RuntimeError", u |-> 0]
TSec(u) == [t |-> "float", u |-> u]
\* The float (u + 0.5) * timeout_unit, a duration between two whole units.
TFrac(u) == [t |-> "float+", u |-> u]
\* A duration counted in half units, to compare two of them.
Twice(v) == 2 * v.u + (IF v.t = "float+" THEN 1 ELSE 0)
\* Python's min(a, b) of two floats: the first one when they are equal.
PyMin(a, b) == IF Twice(b) < Twice(a) THEN b ELSE a

\* int(value / self.timeout_unit) for the float u * timeout_unit, the unit
\* being 3.0 / 100e6: the IEEE-754 quotient falls below u for these u.
LossyUnits == {511, 1022}
IntDivUnit(u) == IF u \in LossyUnits THEN u - 1 ELSE u
\* int(value / self.timeout_unit) for a duration of either form.
IntDiv(value) == IF value.t = "float+" THEN value.u ELSE IntDivUnit(value.u)

\* Durations handed to the timeout setter and to push_timeout: disabled,
\* whole units, half a unit, and 511.5 units, which the setter encodes as
\* the 511 units that do not survive the division by the unit.
SetValues == {TNone, TSec(10), TFrac(511)}
PushValues == {TNone, TSec(5), TSec(600), TFrac(0)}

\* ScaffoldBus.timeout (getter)
Timeout(s) ==
    IF s.cache_timeout = None THEN TErr
    ELSE IF Val(s.cache_timeout) = 0 THEN TNone
    ELSE TSec(Val(s.cache_timeout))

\* The setter without the cache test: it reconfigures the device each time.
SetTimeoutAlways(s, value) ==
    IF s.exc # NoExc THEN s
    ELSE IF value.t = "RuntimeError" THEN Raise(s, "TypeError")
    ELSE
      LET n == IF value.t = "None" THEN 0 ELSE Max(1, IntDiv(value))
          s1 == Alloc(s, TimeoutOp(n), 0, FALSE)
          s2 == Operation(s1, LastId(s1))
      IN IF s2.exc # NoExc THEN s2
         ELSE [s2 EXCEPT !.cache_timeout = Some(n)]

\* ScaffoldBus.timeout (setter)
SetTimeout(s, value) ==
    IF s.exc # NoExc THEN s
    ELSE IF value.t = "RuntimeError" THEN Raise(s, "TypeError")
    ELSE
      LET n == IF value.t = "None" THEN 0 ELSE Max(1, IntDiv(value))
      IN IF Some(n) # s.cache_timeout
         THEN IF n < 0 \/ n \div 65536 >= 65536 THEN Raise(s, "ValueError")
              ELSE LET s1 == Alloc(s, TimeoutOp(n), 0, FALSE)
                       s2 == Operation(s1, LastId(s1))
                   IN IF s2.exc # NoExc THEN s2
                      ELSE [s2 EXCEPT !.cache_timeout = Some(n)]
         ELSE s

\* push_timeout(value) that sets the requested value whatever the current one.
PushTimeoutNoMin(s, value) ==
    IF value.t # "None" /\ Timeout(s).t = "RuntimeError"
    THEN Raise(s, "TypeError")
    ELSE
      LET v == IF value.t = "None" THEN Timeout(s) ELSE value
          s1 == [s EXCEPT !.timeout_stack = Append(@, Timeout(s))]
      IN SetTimeout(s1, v)

\* ScaffoldBus.push_timeout(value)
PushTimeout(s, value) ==
    IF value.t # "None" /\ Timeout(s).t = "RuntimeError"
    THEN Raise(s, "TypeError")
    ELSE
      LET v == IF value.t = "None" THEN Timeout(s)
               ELSE IF Timeout(s).t # "None"
               THEN PyMin(Timeout(s), value)
               ELSE value
          s1 == [s EXCEPT !.timeout_stack = Append(@, Timeout(s))]
      IN SetTimeout(s1, v)

\* ScaffoldBus.pop_timeout()
PopTimeout(s) ==
    IF Len(s.timeout_stack) = 0 THEN Raise(s, "RuntimeError")
    ELSE LET top == s.timeout_stack[Len(s.timeout_stack)]
             s1 == [s EXCEPT !.timeout_stack =
                                 SubSeq(@, 1, Len(s.timeout_stack) - 1)]
         IN SetTimeout(s1, top)

\* with bus.timeout_section(value): body.  __exit__ runs only if __enter__
\* returned; what it raises replaces what the body raised, and it lets the
\* failure of the body through.  The body is "pass" or raises KeyError.
TimeoutSection(s, value, body) ==
    LET s1 == PushTimeout(s, value)
    IN IF s1.exc # NoExc THEN s1
       ELSE LET s2 == IF body = "raise" THEN Raise(s1, "KeyError") ELSE s1
                s3 == PopTimeout([s2 EXCEPT !.exc = NoExc])
            IN IF s3.exc # NoExc THEN s3 ELSE [s3 EXCEPT !.exc = s2.exc]

\* ------------------------------------------------------------- buffer wait
\* ScaffoldBus.push_buffer_wait()
PushBufferWait(s) == [s EXCEPT !.buffer_wait_stack = @ + 1]

RECURSIVE SumDatagrams(_, _)
SumDatagrams(objs, ids) ==
    IF ids = <<>> THEN 0
    ELSE Len(Datagram(objs[Head(ids)].op)) + SumDatagrams(objs, Tail(ids))

\* for op in self.__buffer_wait_operations: self.operation(op)
RECURSIVE SubmitAll(_, _)
SubmitAll(s, ids) ==
    IF s.exc # NoExc \/ ids = <<>> THEN s
    ELSE SubmitAll(Operation(s, Head(ids)), Tail(ids))

\* pop_buffer_wait() whose header declares the number of buffered operations.
PopBufferWaitCount(s) ==
    IF s.buffer_wait_stack = 0 THEN Raise(s, "RuntimeError")
    ELSE
      LET s1 == [s EXCEPT !.buffer_wait_stack = @ - 1]
      IN IF s1.buffer_wait_stack # 0 THEN s1
         ELSE
           LET fifo_size == SumDatagrams(s1.objs, s1.buffer_wait_operations)
           IN IF fifo_size + 3 > FIFO_SIZE THEN Raise(s1, "RuntimeError")
              ELSE
                LET s2 == RequireFifoSpace(s1, fifo_size + 3)
                    s3 == IF s2.exc # NoExc THEN s2
                          ELSE Alloc(s2, BufferWaitOp(
                                   Len(s1.buffer_wait_operations)), 0, FALSE)
                    s4 == Operation(s3, LastId(s3))
                    s5 == SubmitAll(s4, s4.buffer_wait_operations)
                IN IF s5.exc # NoExc THEN s5
                   ELSE [s5 EXCEPT !.buffer_wait_operations = <<>>]

\* pop_buffer_wait() that ignores an exit when no section is open.
PopBufferWaitSilent(s) ==
    IF s.buffer_wait_stack = 0 THEN s
    ELSE
      LET s1 == [s EXCEPT !.buffer_wait_stack = @ - 1]
      IN IF s1.buffer_wait_stack # 0 THEN s1
         ELSE
           LET fifo_size == SumDatagrams(s1.objs, s1.buffer_wait_operations)
           IN IF fifo_size + 3 > FIFO_SIZE THEN Raise(s1, "RuntimeError")
              ELSE
                LET s2 == RequireFifoSpace(s1, fifo_size + 3)
                    s3 == IF s2.exc # NoExc THEN s2
                          ELSE Alloc(s2, BufferWaitOp(fifo_size), 0, FALSE)
                    s4 == Operation(s3, LastId(s3))
                    s5 == SubmitAll(s4, s4.buffer_wait_operations)
                IN IF s5.exc # NoExc THEN s5
                   ELSE [s5 EXCEPT !.buffer_wait_operations = <<>>]

\* pop_buffer_wait() that makes room for the header only.
PopBufferWaitHeaderRoom(s) ==
    IF s.buffer_wait_stack = 0 THEN Raise(s, "RuntimeError")
    ELSE
      LET s1 == [s EXCEPT !.buffer_wait_stack = @ - 1]
      IN IF s1.buffer_wait_stack # 0 THEN s1
         ELSE
           LET fifo_size == SumDatagrams(s1.objs, s1.buffer_wait_operations)
               required_fifo_space == fifo_size + 3
           IN IF required_fifo_space > FIFO_SIZE
              THEN Raise(s1, "RuntimeError")
              ELSE
                LET s2 == RequireFifoSpace(s1, 3)
                    s3 == IF s2.exc # NoExc THEN s2
                          ELSE IF fifo_size \notin 0..511
                          THEN Raise(s2, "ValueError")
                          ELSE Alloc(s2, BufferWaitOp(fifo_size), 0, FALSE)
                    s4 == Operation(s3, LastId(s3))
                    s5 == SubmitAll(s4, s4.buffer_wait_operations)
                IN IF s5.exc # NoExc THEN s5
                   ELSE [s5 EXCEPT !.buffer_wait_operations = <<>>]

\* ScaffoldBus.pop_buffer_wait()
PopBufferWait(s) ==
    IF s.buffer_wait_stack = 0 THEN Raise(s, "RuntimeError")
    ELSE
      LET s1 == [s EXCEPT !.buffer_wait_stack = @ - 1]
      IN IF s1.buffer_wait_stack # 0 THEN s1
         ELSE
           LET fifo_size == SumDatagrams(s1.objs, s1.buffer_wait_operations)
               required_fifo_space == fifo_size + 3
           IN IF required_fifo_space > FIFO_SIZE
              THEN Raise(s1, "RuntimeError")
              ELSE
                LET s2 == RequireFifoSpace(s1, required_fifo_space)
                    s3 == IF s2.exc # NoExc THEN s2
                          ELSE IF fifo_size \notin 0..511
                          THEN Raise(s2, "ValueError")
                          ELSE Alloc(s2, BufferWaitOp(fifo_size), 0, FALSE)
                    s4 == Operation(s3, LastId(s3))
                    s5 == SubmitAll(s4, s4.buffer_wait_operations)
                IN IF s5.exc # NoExc THEN s5
                   ELSE [s5 EXCEPT !.buffer_wait_operations = <<>>]

\* ---------------------------------------------------------------- register
\* __init__ that lets a register of several bytes be readable.
RegisterInitWide(mode, address, wideness, min_value, max_value) ==
    LET top == Pow256(wideness) - 1
        lo == IF min_value = None THEN 0 ELSE Val(min_value)
        hi == IF max_value = None THEN top ELSE Val(max_value)
        obj == [w |-> "w" \in mode, r |-> "r" \in mode,
                volatile |-> "v" \in mode, address |-> address,
                wideness |-> wideness, min_value |-> lo, max_value |-> hi,
                cache |-> None]
    IN IF address \notin 0..65535 THEN [exc |-> "ValueError", obj |-> None]
       ELSE IF wideness < 1 THEN [exc |-> "ValueError", obj |-> None]
       ELSE IF min_value # None /\ Val(min_value) \notin 0..top
       THEN [exc |-> "ValueError", obj |-> None]
       ELSE IF max_value # None /\ Val(max_value) \notin 0..top
       THEN [exc |-> "ValueError", obj |-> None]
       ELSE IF lo > hi THEN [exc |-> "ValueError", obj |-> None]
       ELSE [exc |-> NoExc, obj |-> Some(obj)]

\* Register.__init__(parent, mode, address, wideness, min_value, max_value):
\* the exception it raises, if any, and the object it builds.  mode is the
\* set of the characters of the mode string.
RegisterInit(mode, address, wideness, min_value, max_value) ==
    LET top == Pow256(wideness) - 1
        lo == IF min_value = None THEN 0 ELSE Val(min_value)
        hi == IF max_value = None THEN top ELSE Val(max_value)
        obj == [w |-> "w" \in mode, r |-> "r" \in mode,
                volatile |-> "v" \in mode, address |-> address,
                wideness |-> wideness, min_value |-> lo, max_value |-> hi,
                cache |-> None]
    IN IF address \notin 0..65535 THEN [exc |-> "ValueError", obj |-> None]
       ELSE IF wideness < 1 THEN [exc |-> "ValueError", obj |-> None]
       ELSE IF wideness > 1 /\ "r" \in mode
       THEN [exc |-> "ValueError", obj |-> None]
       ELSE IF min_value # None /\ Val(min_value) \notin 0..top
       THEN [exc |-> "ValueError", obj |-> None]
       ELSE IF max_value # None /\ Val(max_value) \notin 0..top
       THEN [exc |-> "ValueError", obj |-> None]
       ELSE IF lo > hi THEN [exc |-> "ValueError", obj |-> None]
       ELSE [exc |-> NoExc, obj |-> Some(obj)]

\* set(value) that does not check the bounds of the register.
RegisterSetNoBounds(s, value, poll, tmo) ==
    LET r == Val(s.reg)
    IN IF ~r.w THEN Raise(s, "RuntimeError")
       ELSE LET value_bytes == ToBytes(value, r.wideness)
                s1 == BusWrite(s, r.address, value_bytes, poll, tmo)
            IN IF s1.exc # NoExc THEN s1
               ELSE [s1 EXCEPT !.reg = Some([r EXCEPT !.cache = Some(value)])]

\* Register.set(value, poll, poll_mask, poll_value); tmo tells whether the
\* device will find the polled condition unmet (1) or met (0).
RegisterSet(s, value, poll, tmo) ==
    LET r == Val(s.reg)
    IN IF value < r.min_value THEN Raise(s, "ValueError")
       ELSE IF value > r.max_value THEN Raise(s, "ValueError")
       ELSE IF ~r.w THEN Raise(s, "RuntimeError")
       ELSE LET value_bytes == ToBytes(value, r.wideness)
                s1 == BusWrite(s, r.address, value_bytes, poll, tmo)
            IN IF s1.exc # NoExc THEN s1
               ELSE [s1 EXCEPT !.reg = Some([r EXCEPT !.cache = Some(value)])]

\* bytes[0], s1.ret being the bytes bus.read returned
FirstByte(s1) ==
    IF s1.exc # NoExc THEN [s1 EXCEPT !.ret = None]
    ELSE IF Val(s1.ret) = <<>>
    THEN [s1 EXCEPT !.exc = "IndexError", !.ret = None]
    ELSE [s1 EXCEPT !.ret = Some(Val(s1.ret)[1])]

\* self.__parent.bus.read(self.__address)[0]
RegisterRead(s) == FirstByte(BusRead(s, Val(s.reg).address, 1, None, 0))

\* get() that returns the value read without keeping it.
FillCacheSkip(s1) == s1

\* self.__cache = value, s1.ret being the value get() read from the board
FillCache(s1) ==
    IF s1.exc # NoExc THEN s1
    ELSE [s1 EXCEPT !.reg = Some([Val(s1.reg) EXCEPT !.cache = s1.ret])]

\* get() that takes a cached 0 for an empty cache.
RegisterGetFalsy(s) ==
    LET r == Val(s.reg)
    IN IF r.volatile
       THEN IF ~r.r THEN Raise(s, "RuntimeError") ELSE RegisterRead(s)
       ELSE IF r.cache = None \/ r.cache = Some(0)
       THEN IF r.r
            THEN FillCache(RegisterRead(s))
            ELSE Raise(s, "RuntimeError")
       ELSE [s EXCEPT !.ret = r.cache]

\* get() that returns the cache of a volatile register when there is one.
RegisterGetCached(s) ==
    LET r == Val(s.reg)
    IN IF r.cache # None THEN [s EXCEPT !.ret = r.cache]
       ELSE IF ~r.r THEN Raise(s, "RuntimeError")
       ELSE IF r.volatile THEN RegisterRead(s)
       ELSE FillCache(RegisterRead(s))

\* Register.get()
RegisterGet(s) ==
    LET r == Val(s.reg)
    IN IF r.volatile
       THEN IF ~r.r THEN Raise(s, "RuntimeError") ELSE RegisterRead(s)
       ELSE IF r.cache = None
       THEN IF r.r
            THEN FillCache(RegisterRead(s))
            ELSE Raise(s, "RuntimeError")
       ELSE [s EXCEPT !.ret = r.cache]

\* write(data) that does not look at the access mode.
RegisterRawWriteUnchecked(s, data, poll) ==
    BusWrite(s, Val(s.reg).address, data, poll, 0)

\* Register.write(data, poll, poll_mask, poll_value)
RegisterRawWrite(s, data, poll) ==
    IF ~Val(s.reg).w THEN Raise(s, "RuntimeError")
    ELSE BusWrite(s, Val(s.reg).address, data, poll, 0)

\* Register.read(size, poll, poll_mask, poll_value)
RegisterRawRead(s, size, poll) ==
    IF ~Val(s.reg).r THEN Raise(s, "RuntimeError")
    ELSE BusRead(s, Val(s.reg).address, size, poll, 0)

\* Python's operators on the non-negative integers the helpers combine:
\* a & b, a | b, a & ~m, a << n and a >> n.
RECURSIVE BitAnd(_, _)
BitAnd(a, b) ==
    IF a = 0 \/ b = 0 THEN 0
    ELSE (a % 2) * (b % 2) + 2 * BitAnd(a \div 2, b \div 2)

RECURSIVE BitOr(_, _)
BitOr(a, b) ==
    IF a = 0 THEN b
    ELSE IF b = 0 THEN a
    ELSE (IF a % 2 = 1 \/ b % 2 = 1 THEN 1 ELSE 0)
         + 2 * BitOr(a \div 2, b \div 2)

RECURSIVE BitAndNot(_, _)
BitAndNot(a, m) ==
    IF a = 0 THEN 0
    ELSE (a % 2) * (1 - (m % 2)) + 2 * BitAndNot(a \div 2, m \div 2)

RECURSIVE Shl(_, _)
Shl(a, n) == IF n = 0 THEN a ELSE Shl(2 * a, n - 1)

RECURSIVE Shr(_, _)
Shr(a, n) == IF n = 0 THEN a ELSE Shr(a \div 2, n - 1)

\* int(bool(value))
IntBool(value) == IF value = 0 THEN 0 ELSE 1

\* self.get() | value
OrSetValue(current, value) == BitOr(current, value)

\* (self.get() & ~(1 << index)) | (int(bool(value)) << index)
SetBitValue(current, index, value) ==
    BitOr(BitAndNot(current, Shl(1, index)), Shl(IntBool(value), index))

\* (self.get() >> index) & 1
GetBitValue(current, index) == BitAnd(Shr(current, index), 1)

\* set_mask that sets the selected bits and clears none.
SetMaskValueKeepOnes(current, value, mask) ==
    BitOr(current, BitAnd(value, mask))

\* (current & (~mask)) | (value & mask)
SetMaskValue(current, value, mask) ==
    BitOr(BitAndNot(current, mask), BitAnd(value, mask))

\* A call of a bit helper: or_set(value), set_bit(index, value, poll),
\* get_bit(index), set_mask(value, mask, poll).
BitCall(name, value, index, mask, poll) ==
    [name |-> name, value |-> value, index |-> index, mask |-> mask,
     poll |-> poll]

\* The value the helper h hands to set(), current being what get() returned.
BitCallValue(h, current) ==
    CASE h.name = "or_set" -> OrSetValue(current, h.value)
      [] h.name = "set_bit" -> SetBitValue(current, h.index, h.value)
      [] h.name = "set_mask" -> SetMaskValue(current, h.value, h.mask)

\* What the helper h does with the world g that self.get() left: get_bit
\* returns a bit of the value, the others hand the merged value to self.set.
AfterGet(g, h) ==
    IF g.exc # NoExc THEN g
    ELSE IF h.name = "get_bit"
    THEN [g EXCEPT !.ret = Some(GetBitValue(Val(g.ret), h.index))]
    ELSE RegisterSet([g EXCEPT !.ret = None], BitCallValue(h, Val(g.ret)),
                     h.poll, 0)

\* Register.or_set, set_bit, get_bit and set_mask
RegisterBits(s, h) == AfterGet(RegisterGet(s), h)

\* ------------------------------------------------------------------- router
\* ArchBase and the bus it owns (scaffold/__init__.py).  The world b threaded
\* through these operators is the ArchBase object: the serial port of its
\* bus (ser), the lazy-section bookkeeping of its bus, the four signal lists
\* of the matrices, and what the current call did: the datagrams written to
\* the port (tx), the number of acknowledgements read from it (rx) and the
\* exception raised (exc), with the TimeoutError lazy_end kept to raise it
\* (last_error, <<size, expected>>).  lazy_acks is the board's side of
\* lazy_writes: the count it acknowledges for each pending write.
ADDR_MTXR_BASE == 61696
ADDR_MTXL_BASE == 61440

ArchRaise(b, e) == [b EXCEPT !.exc = e]

\* x in list
In(list, x) == \E i \in DOMAIN list : list[i] = x
\* list.index(x), for x in list
Index(list, x) == (CHOOSE i \in DOMAIN list :
                      list[i] = x /\ \A j \in 1..(i - 1) : list[j] # x) - 1

\* ScaffoldBus.prepare_datagram(rw, addr, size, poll, poll_mask, poll_value):
\* the exception raised, if any, and the datagram.
PrepareDatagram(rw, addr, size, poll) ==
    IF rw \notin 0..1 THEN [exc |-> "ValueError", datagram |-> <<>>]
    ELSE IF size \notin 1..MAX_CHUNK
    THEN [exc |-> "ValueError", datagram |-> <<>>]
    ELSE IF addr \notin 0..65535 THEN [exc |-> "ValueError", datagram |-> <<>>]
    ELSE IF poll # None /\ Val(poll).addr \notin 0..65535
    THEN [exc |-> "ValueError", datagram |-> <<>>]
    ELSE IF poll # None /\ (Val(poll).mask \notin 0..255
                            \/ Val(poll).value \notin 0..255)
    THEN [exc |-> "ValueError", datagram |-> <<>>]
    ELSE [exc |-> NoExc,
          datagram |-> DatagramHead([addr |-> addr, poll |-> poll], rw, size)]

\* The lazy branch of write: the loop that fetches responses until the
\* datagram fits the FIFO.
RECURSIVE LazyMakeRoom(_, _)
LazyMakeRoom(b, dg_len) ==
    IF b.exc # NoExc THEN b
    ELSE IF ~(b.lazy_fifo_total_size + dg_len > FIFO_SIZE) THEN b
    ELSE IF b.lazy_writes = <<>> THEN ArchRaise(b, "IndexError")
    ELSE LET expected_size == Head(b.lazy_writes)
             ack == Head(b.lazy_acks)
             b1 == [b EXCEPT !.rx = @ + 1,
                             !.lazy_writes = Tail(@),
                             !.lazy_acks = Tail(@),
                             !.lazy_fifo_total_size =
                                 @ - Head(b.lazy_fifo_sizes),
                             !.lazy_fifo_sizes = Tail(@)]
         IN IF ack # expected_size THEN ArchRaise(b1, "TimeoutError")
            ELSE LazyMakeRoom(b1, dg_len)

\* One chunk of write, datagram being complete; ack is what the board
\* acknowledges for it.
WriteChunk(b, datagram, chunk_size, poll, ack) ==
    IF ~(Len(datagram) < FIFO_SIZE) THEN ArchRaise(b, "AssertionError")
    ELSE IF b.lazy_stack = 0
    THEN LET b1 == [b EXCEPT !.tx = Append(@, datagram), !.rx = @ + 1]
         IN IF ack # chunk_size
            THEN IF poll = None THEN ArchRaise(b1, "AssertionError")
                 ELSE ArchRaise(b1, "TimeoutError")
            ELSE b1
    ELSE LET b1 == LazyMakeRoom(b, Len(datagram))
         IN IF b1.exc # NoExc THEN b1
            ELSE [b1 EXCEPT
                    !.lazy_fifo_total_size = @ + Len(datagram),
                    !.lazy_fifo_sizes = Append(@, Len(datagram)),
                    !.tx = Append(@, datagram),
                    !.lazy_writes = Append(@, chunk_size),
                    !.lazy_acks = Append(@, ack)]

\* ScaffoldBus.write(addr, data, poll, poll_mask, poll_value) of
\* scaffold/__init__.py: the loop.  tmo tells that the board times out on the
\* polling of the chunks.
RECURSIVE LegacyWriteLoop(_, _, _, _, _, _, _)
LegacyWriteLoop(b, addr, data, poll, tmo, offset, remaining) ==
    IF b.exc # NoExc \/ remaining = 0 THEN b
    ELSE
      LET chunk_size == Min(MAX_CHUNK, remaining)
          head == PrepareDatagram(1, addr, chunk_size, poll)
          ack == IF poll # None /\ tmo THEN chunk_size \div 2 ELSE chunk_size
      IN IF head.exc # NoExc THEN ArchRaise(b, head.exc)
         ELSE LegacyWriteLoop(
                  WriteChunk(b, head.datagram
                                  \o SubSeq(data, offset + 1,
                                            offset + chunk_size),
                             chunk_size, poll, ack),
                  addr, data, poll, tmo, offset + chunk_size,
                  remaining - chunk_size)
LegacyWrite(b, addr, data, poll, tmo) ==
    IF b.exc # NoExc THEN b
    ELSE IF ~b.ser THEN ArchRaise(b, "RuntimeError")
    ELSE LegacyWriteLoop(b, addr, data, poll, tmo, 0, Len(data))

\* write(addr, data) with an int for data: bytes([data])
LegacyWriteInt(b, addr, value) ==
    IF b.exc # NoExc THEN b
    ELSE IF ~b.ser THEN ArchRaise(b, "RuntimeError")
    ELSE IF value \notin 0..255 THEN ArchRaise(b, "ValueError")
    ELSE LegacyWriteLoop(b, addr, <<value>>, None, FALSE, 0, 1)

\* ScaffoldBus.lazy_start()
LazyStart(b) == [b EXCEPT !.lazy_stack = @ + 1]

\* The responses lazy_end fetches: every pending write, the error of the last
\* one that timed out being kept.
LazyTimedOut(b) ==
    \E i \in DOMAIN b.lazy_writes : b.lazy_acks[i] # b.lazy_writes[i]

\* lazy_end that raises at the first write that timed out.
RECURSIVE LazyEndStopLoop(_, _)
LazyEndStopLoop(b, i) ==
    IF i > Len(b.lazy_writes) THEN b
    ELSE LET expected_size == b.lazy_writes[i]
             ack == b.lazy_acks[i]
             b1 == [b EXCEPT !.rx = @ + 1]
         IN IF ack # expected_size
            THEN [b1 EXCEPT !.last_error = Some(<<ack, expected_size>>),
                            !.lazy_writes = SubSeq(@, i + 1, Len(@)),
                            !.lazy_acks = SubSeq(@, i + 1, Len(@))]
            ELSE LazyEndStopLoop(b1, i + 1)
LazyEndAtOnce(b) ==
    IF b.lazy_stack = 0 THEN ArchRaise(b, "RuntimeError")
    ELSE IF b.lazy_stack > 1 THEN [b EXCEPT !.lazy_stack = @ - 1]
    ELSE LET b1 == LazyEndStopLoop([b EXCEPT !.lazy_stack = 0], 1)
         IN IF b1.last_error # None THEN ArchRaise(b1, "TimeoutError")
            ELSE [b1 EXCEPT !.lazy_writes = <<>>, !.lazy_acks = <<>>,
                            !.lazy_fifo_total_size = 0,
                            !.lazy_fifo_sizes = <<>>]

\* The loop of lazy_end over self.__lazy_writes, from the i-th on: one
\* response is read for each, and the error of a write that timed out,
\* <<size, expected>>, replaces the one kept so far.
RECURSIVE LazyEndLoop(_, _)
LazyEndLoop(b, i) ==
    IF i > Len(b.lazy_writes) THEN b
    ELSE LET expected_size == b.lazy_writes[i]
             ack == b.lazy_acks[i]
             b1 == [b EXCEPT !.rx = @ + 1]
         IN IF ack # expected_size
            THEN LazyEndLoop(
                     [b1 EXCEPT !.last_error = Some(<<ack, expected_size>>)],
                     i + 1)
            ELSE LazyEndLoop(b1, i + 1)

\* ScaffoldBus.lazy_end()
LazyEnd(b) ==
    IF b.lazy_stack = 0 THEN ArchRaise(b, "RuntimeError")
    ELSE IF b.lazy_stack > 1 THEN [b EXCEPT !.lazy_stack = @ - 1]
    ELSE LET b1 == LazyEndLoop([b EXCEPT !.lazy_stack = 0], 1)
             b2 == [b1 EXCEPT !.lazy_writes = <<>>, !.lazy_acks = <<>>,
                              !.lazy_fifo_total_size = 0,
                              !.lazy_fifo_sizes = <<>>]
         IN IF b2.last_error # None THEN ArchRaise(b2, "TimeoutError")
            ELSE b2

\* ScaffoldBus.__set_timeout_raw(value) of scaffold/__init__.py
LegacySetTimeoutRaw(b, value) ==
    IF value < 0 \/ value \div 65536 >= 65536 THEN ArchRaise(b, "ValueError")
    ELSE IF ~b.ser THEN ArchRaise(b, "AttributeError")
    ELSE [b EXCEPT !.tx = Append(@, <<8>> \o ToBytes(value, 4))]

\* ScaffoldBus.timeout (setter) of scaffold/__init__.py
LegacySetTimeout(b, value) ==
    IF b.exc # NoExc THEN b
    ELSE IF value.t = "RuntimeError" THEN ArchRaise(b, "TypeError")
    ELSE
      LET n == IF value.t = "None" THEN 0 ELSE Max(1, IntDiv(value))
      IN IF Some(n) # b.cache_timeout
         THEN LET b1 == LegacySetTimeoutRaw(b, n)
              IN IF b1.exc # NoExc THEN b1
                 ELSE [b1 EXCEPT !.cache_timeout = Some(n)]
         ELSE b

\* Signals given to sig_connect: a Signal of this board or of another one,
\* an int, None, or an object of another type.
SignalOf(parent, path) ==
    [t |-> "Signal", parent |-> parent, path |-> path, v |-> 0]
IntSignal(v) == [t |-> "int", parent |-> "", path |-> "", v |-> v]
NoSignal == [t |-> "None", parent |-> "", path |-> "", v |-> 0]
OtherSignal == [t |-> "str", parent |-> "", path |-> "", v |-> 0]
\* Destinations and sources given to sig_connect.
Destinations ==
    {SignalOf("self", "/uart0/rx"), SignalOf("self", "/io/a0"),
     SignalOf("self", "/dup"), SignalOf("self", "/nowhere"),
     SignalOf("other", "/io/a0"), IntSignal(0), OtherSignal}
Sources ==
    {SignalOf("self", "/io/a0"), SignalOf("self", "/uart0/tx"),
     SignalOf("self", "/nowhere"), SignalOf("other", "/uart0/tx"),
     IntSignal(1), IntSignal(2), NoSignal}

\* __signal_to_path that does not look at the board of a Signal.
SignalToPathAnyBoard(signal) ==
    IF signal.t = "Signal" THEN [exc |-> NoExc, path |-> signal.path]
    ELSE IF signal.t = "int"
    THEN IF signal.v \notin {0, 1}
         THEN [exc |-> "ValueError", path |-> ""]
         ELSE [exc |-> NoExc, path |-> IF signal.v = 0 THEN "0" ELSE "1"]
    ELSE IF signal.t = "None" THEN [exc |-> NoExc, path |-> "z"]
    ELSE [exc |-> "ValueError", path |-> ""]

\* ArchBase.__signal_to_path(signal): the exception raised, if any, and the
\* path.
SignalToPath(signal) ==
    IF signal.t = "Signal"
    THEN IF signal.parent # "self" THEN [exc |-> "ValueError", path |-> ""]
         ELSE [exc |-> NoExc, path |-> signal.path]
    ELSE IF signal.t = "int"
    THEN IF signal.v \notin {0, 1}
         THEN [exc |-> "ValueError", path |-> ""]
         ELSE [exc |-> NoExc, path |-> IF signal.v = 0 THEN "0" ELSE "1"]
    ELSE IF signal.t = "None" THEN [exc |-> NoExc, path |-> "z"]
    ELSE [exc |-> "ValueError", path |-> ""]

\* sig_connect that prefers the right matrix to reporting an ambiguity.
ConnectPathsNoAmbiguity(b, dest_path, src_path) ==
    LET dest_in_mtxr_out == In(b.mtxr_out, dest_path)
        dest_in_mtxl_out == In(b.mtxl_out, dest_path)
        src_in_mtxl_in == In(b.mtxl_in, src_path)
        src_in_mtxr_in == In(b.mtxr_in, src_path)
    IN IF ~(dest_in_mtxr_out \/ dest_in_mtxl_out)
       THEN ArchRaise(b, "RuntimeError:destination")
       ELSE IF dest_in_mtxr_out /\ src_in_mtxr_in
       THEN LegacyWriteInt(b, ADDR_MTXR_BASE + Index(b.mtxr_out, dest_path),
                           Index(b.mtxr_in, src_path))
       ELSE IF dest_in_mtxl_out /\ src_in_mtxl_in
       THEN LegacyWriteInt(b, ADDR_MTXL_BASE + Index(b.mtxl_out, dest_path),
                           Index(b.mtxl_in, src_path))
       ELSE ArchRaise(b, "RuntimeError:connect")

\* sig_connect that addresses both matrices from the base of the left one.
ConnectPathsOneBase(b, dest_path, src_path) ==
    LET dest_in_mtxr_out == In(b.mtxr_out, dest_path)
        dest_in_mtxl_out == In(b.mtxl_out, dest_path)
        src_in_mtxl_in == In(b.mtxl_in, src_path)
        src_in_mtxr_in == In(b.mtxr_in, src_path)
    IN IF ~(dest_in_mtxr_out \/ dest_in_mtxl_out)
       THEN ArchRaise(b, "RuntimeError:destination")
       ELSE IF dest_in_mtxr_out /\ src_in_mtxr_in
       THEN IF dest_in_mtxl_out /\ src_in_mtxl_in
            THEN ArchRaise(b, "RuntimeError:ambiguity")
            ELSE LegacyWriteInt(b, ADDR_MTXL_BASE
                                      + Index(b.mtxr_out, dest_path),
                                Index(b.mtxr_in, src_path))
       ELSE IF dest_in_mtxl_out /\ src_in_mtxl_in
       THEN LegacyWriteInt(b, ADDR_MTXL_BASE + Index(b.mtxl_out, dest_path),
                           Index(b.mtxl_in, src_path))
       ELSE ArchRaise(b, "RuntimeError:connect")

\* The body of sig_connect once both paths are known.
ConnectPaths(b, dest_path, src_path) ==
    LET dest_in_mtxr_out == In(b.mtxr_out, dest_path)
        dest_in_mtxl_out == In(b.mtxl_out, dest_path)
        src_in_mtxl_in == In(b.mtxl_in, src_path)
        src_in_mtxr_in == In(b.mtxr_in, src_path)
    IN IF ~(dest_in_mtxr_out \/ dest_in_mtxl_out)
       THEN ArchRaise(b, "RuntimeError:destination")
       ELSE IF dest_in_mtxr_out /\ src_in_mtxr_in
       THEN IF dest_in_mtxl_out /\ src_in_mtxl_in
            THEN ArchRaise(b, "RuntimeError:ambiguity")
            ELSE LegacyWriteInt(b, ADDR_MTXR_BASE
                                      + Index(b.mtxr_out, dest_path),
                                Index(b.mtxr_in, src_path))
       ELSE IF dest_in_mtxl_out /\ src_in_mtxl_in
       THEN LegacyWriteInt(b, ADDR_MTXL_BASE + Index(b.mtxl_out, dest_path),
                           Index(b.mtxl_in, src_path))
       ELSE ArchRaise(b, "RuntimeError:connect")

\* ArchBase.sig_connect(a, b)
SigConnect(b, dest, src) ==
    LET d == SignalToPath(dest)
        sp == SignalToPath(src)
    IN IF d.exc # NoExc THEN ArchRaise(b, d.exc)
       ELSE IF sp.exc # NoExc THEN ArchRaise(b, sp.exc)
       ELSE ConnectPaths(b, d.path, sp.path)

\* for i in range(n): self.bus.write(base + i, 0)
RECURSIVE ZeroCells(_, _, _, _)
ZeroCells(b, base, i, n) ==
    IF b.exc # NoExc \/ i >= n THEN b
    ELSE ZeroCells(LegacyWriteInt(b, base + i, 0), base, i + 1, n)

\* Leaving the with block: __exit__ calls lazy_end, whose exception, if it
\* raises one, replaces the exception of the body.
LazyExit(b) ==
    LET b1 == LazyEnd([b EXCEPT !.exc = NoExc])
    IN IF b1.exc # NoExc THEN b1 ELSE [b1 EXCEPT !.exc = b.exc]

\* sig_disconnect_all that clears the left matrix only.
SigDisconnectLeft(b) ==
    LazyExit(ZeroCells(LazyStart(b), ADDR_MTXL_BASE, 0, Len(b.mtxl_out)))

\* ArchBase.sig_disconnect_all()
SigDisconnectAll(b) ==
    LazyExit(ZeroCells(ZeroCells(LazyStart(b), ADDR_MTXL_BASE, 0,
                                 Len(b.mtxl_out)),
                       ADDR_MTXR_BASE, 0, Len(b.mtxr_out)))

\* ------------------------------------------------------------------- state
VARIABLES
    connected,               \* self.ser is not None
    version,                 \* self.version
    operations,              \* self.__operations (identifiers, oldest first)
    buffer_wait_operations,  \* self.__buffer_wait_operations
    buffer_wait_stack,       \* self.__buffer_wait_stack
    fifo_size,               \* self.__fifo_size, the FIFO shadow counter
    cache_timeout,           \* self.__cache_timeout
    timeout_stack,           \* self.__timeout_stack
    objs,                    \* the Operation objects created so far
    sent,                    \* identifiers in the order of their transport write
    resolved,                \* identifiers in the order of their resolution
    wire,                    \* transport events of the last public call
    reg,                     \* the Register object, None before it is built
    arch,                    \* the ArchBase object and the bus it owns
    call                     \* the last public call and how it ended

vars == <<connected, version, operations, buffer_wait_operations,
          buffer_wait_stack, fifo_size, cache_timeout, timeout_stack, objs,
          sent, resolved, wire, reg, arch, call>>

\* The variables of the bus of scaffold/bus.py and of the register.
busvars == <<connected, version, operations, buffer_wait_operations,
             buffer_wait_stack, fifo_size, cache_timeout, timeout_stack, objs,
             sent, resolved, wire, reg, call>>

\* Operation.__del__: an object nobody refers to any more (it left the queue
\* and the caller kept no reference) is reclaimed; it must be resolved then.
\* The heap keeps it until the next public call begins, so that the state a
\* call leaves still shows the operations it resolved.
Freed ==
    [op |-> TimeoutOp(0), status |-> "FREED", result |-> None, dev |-> 0,
     held |-> FALSE]
Reclaim(heap) ==
    [i \in 1..Len(heap) |->
        IF ~heap[i].held /\ heap[i].status \in {"COMPLETED", "TIMEOUT"}
        THEN Freed ELSE heap[i]]

\* The bus as a public call finds it.  fault is the rank, among the writes
\* to the transport the call will attempt, of the one on which the serial
\* port raises, rfault the same among its reads; 0 when the port works.
Begin ==
    [connected |-> connected, version |-> version, operations |-> operations,
     buffer_wait_operations |-> buffer_wait_operations,
     buffer_wait_stack |-> buffer_wait_stack, fifo_size |-> fifo_size,
     cache_timeout |-> cache_timeout, timeout_stack |-> timeout_stack,
     objs |-> Reclaim(objs), sent |-> sent, resolved |-> resolved,
     wire |-> <<>>, reg |-> reg, exc |-> NoExc, err |-> NoErr, ret |-> None,
     fault |-> 0, rfault |-> 0]

\* What a call was asked: its name and arguments; fault and rfault are the
\* ranks of the transport write and read that fail during the call, if any.
Args(name, addr, size, poll, id, value) ==
    [name |-> name, addr |-> addr, size |-> size, poll |-> poll, id |-> id,
     value |-> value, fault |-> 0, rfault |-> 0]
OnFault(args, w, r) == [args EXCEPT !.fault = w, !.rfault = r]

\* The bus as a public call leaves it.  first is the identifier of the first
\* object the call created, depth the nesting depth it found.
CommitUpTo(s, args, n) ==
    /\ Len(s.objs) <= n
    /\ connected' = s.connected
    /\ version' = s.version
    /\ operations' = s.operations
    /\ buffer_wait_operations' = s.buffer_wait_operations
    /\ buffer_wait_stack' = s.buffer_wait_stack
    /\ fifo_size' = s.fifo_size
    /\ cache_timeout' = s.cache_timeout
    /\ timeout_stack' = s.timeout_stack
    /\ objs' = s.objs
    /\ sent' = s.sent
    /\ resolved' = s.resolved
    /\ wire' = s.wire
    /\ reg' = s.reg
    /\ arch' = arch
    /\ call' = [args |-> args, exc |-> s.exc, err |-> s.err, ret |-> s.ret,
                first |-> Len(objs) + 1, depth |-> buffer_wait_stack]

Commit(s, args) == CommitUpTo(s, args, MaxOps)

NoArgs == Args("init", 0, 0, None, 0, TNone)

\* The ArchBase object as a public call finds it, and as it leaves it.
ArchBegin ==
    [arch EXCEPT !.tx = <<>>, !.rx = 0, !.exc = NoExc, !.last_error = None]
ArchArgs(name, dest, src) == [name |-> name, dest |-> dest, src |-> src]
ArchCommit(b, args) ==
    /\ Len(b.lazy_writes) <= MaxLazy
    /\ arch' = [b EXCEPT !.call = args]
    /\ UNCHANGED busvars

Init ==
    /\ connected = FALSE
    /\ version = None
    /\ operations = <<>>
    /\ buffer_wait_operations = <<>>
    /\ buffer_wait_stack = 0
    /\ fifo_size = 0
    /\ cache_timeout = None
    /\ timeout_stack = <<>>
    /\ objs = <<>>
    /\ sent = <<>>
    /\ resolved = <<>>
    /\ wire = <<>>
    /\ reg = None
    /\ arch = [ser |-> FALSE, lazy_stack |-> 0, lazy_writes |-> <<>>,
               lazy_acks |-> <<>>, lazy_fifo_sizes |-> <<>>,
               lazy_fifo_total_size |-> 0, cache_timeout |-> None,
               mtxl_in |-> <<>>, mtxl_out |-> <<>>, mtxr_in |-> <<>>,
               mtxr_out |-> <<>>, tx |-> <<>>, rx |-> 0, exc |-> NoExc,
               last_error |-> None,
               call |-> ArchArgs("init", NoSignal, NoSignal)]
    /\ call = [args |-> NoArgs, exc |-> NoExc, err |-> NoErr, ret |-> None,
               first |-> 1, depth |-> 0]

\* ----------------------------------------------------------------- actions
\* connect(dev), and the revision read from the board.
Connect(Vs) ==
    /\ ~connected
    /\ \E v \in Vs :
         Commit([Begin EXCEPT !.connected = TRUE, !.version = Some(v)],
                Args("connect", 0, 0, None, 0, TNone))

\* bus.write(addr, data, poll, ...); a case is <<length, poll, tmo>>.
Write(Cases) ==
    \E addr \in Addrs, c \in Cases :
      LET L == c[1]  poll == c[2]  tmo == c[3]
      IN Commit(BusWrite(Begin, addr, Pattern(L), poll, tmo),
                Args("write", addr, L, poll, tmo, TNone))

\* bus.read(addr, size, poll, ...); a case is <<size, poll, tmo>>.
Read(Cases) ==
    \E addr \in Addrs, c \in Cases :
      LET size == c[1]  poll == c[2]  tmo == c[3]
      IN Commit(BusRead(Begin, addr, size, poll, tmo),
                Args("read", addr, size, poll, tmo, TNone))

\* bus.operation(ReadOperation(addr, size)), the caller keeping the object.
SubmitRead ==
    \E addr \in Addrs, size \in {2}, poll \in Polls, short \in BOOLEAN :
      /\ short <=> poll # None
      /\ LET s1 == Alloc(Begin, ReadOp(addr, size, poll),
                         IF short THEN size - 1 ELSE size, TRUE)
         IN Commit(Operation(s1, LastId(s1)),
                   Args("operation", addr, size, poll, LastId(s1), TNone))

\* op.result, on a ReadOperation the caller kept.
ReadResult ==
    \E id \in 1..Len(objs) :
      /\ objs[id].held
      /\ Commit(Result(Begin, id), Args("result", 0, 0, None, id, TNone))

\* bus.delay(cycles)
Delay ==
    \E cycles \in DelayCycles :
      Commit(BusDelay(Begin, cycles),
             Args("delay", 0, 0, None, 0, TSec(cycles)))

\* bus.write and bus.read with addresses of a given set.
WriteTo(As, Cases) ==
    \E addr \in As, c \in Cases :
      LET L == c[1]  poll == c[2]  tmo == c[3]
      IN Commit(BusWrite(Begin, addr, Pattern(L), poll, tmo),
                Args("write", addr, L, poll, tmo, TNone))
ReadFrom(As, Cases) ==
    \E addr \in As, c \in Cases :
      LET size == c[1]  poll == c[2]  tmo == c[3]
      IN Commit(BusRead(Begin, addr, size, poll, tmo),
                Args("read", addr, size, poll, tmo, TNone))
\* bus.delay(cycles) with the cycles of a given set.
DelayOf(Cycles) ==
    \E cycles \in Cycles :
      Commit(BusDelay(Begin, cycles),
             Args("delay", 0, 0, None, 0, TSec(cycles)))

\* What a call on a register was asked: its name and its integer argument.
RegArgs(name, value) ==
    [name |-> name, addr |-> 0, size |-> 0, poll |-> None, id |-> 0,
     value |-> [t |-> "int", u |-> value], fault |-> 0, rfault |-> 0]

\* Register(parent, mode, address, wideness, min_value, max_value)
NewRegister ==
    /\ reg = None
    /\ \E c \in Registers :
         LET built == RegisterInit(c[1], c[2], c[3], c[4], c[5])
         IN Commit([Begin EXCEPT !.reg = built.obj, !.exc = built.exc],
                   RegArgs("Register", c[3]))

\* register.set(value)
RegSet ==
    /\ reg # None
    /\ \E value \in SetInputs :
         Commit(RegisterSet(Begin, value, None, 0), RegArgs("set", value))

\* Register(parent, mode, address, wideness) with the arguments of a set.
NewRegisterOf(Configs) ==
    /\ reg = None
    /\ \E c \in Configs :
         LET built == RegisterInit(c[1], c[2], c[3], c[4], c[5])
         IN Commit([Begin EXCEPT !.reg = built.obj, !.exc = built.exc],
                   RegArgs("Register", c[3]))

\* register.set(value, poll, poll_mask, poll_value), the polled condition
\* being met or not when the device comes to the write.
RegSetPolled ==
    /\ reg # None
    /\ \E value \in {3, 258}, tmo \in {0, 1} :
         Commit(RegisterSet(Begin, value, Poll1, tmo),
                [RegArgs("set", value) EXCEPT !.poll = Poll1, !.id = tmo])

\* register.get()
RegGet ==
    /\ reg # None
    /\ Commit(RegisterGet(Begin), RegArgs("get", 0))

\* register.or_set(value), register.set_bit(index, value, poll),
\* register.get_bit(index) or register.set_mask(value, mask), as Calls says.
RegBits(Calls) ==
    /\ reg # None
    /\ \E h \in Calls :
         Commit(RegisterBits(Begin, h),
                [RegArgs(h.name, h.value) EXCEPT
                    !.size = IF h.name = "set_mask" THEN h.mask ELSE h.index,
                    !.poll = h.poll])

OrSetCalls == {BitCall("or_set", v, 0, 0, None) : v \in OrSetInputs}
SetBitCalls == {BitCall("set_bit", c[2], c[1], 0, c[3]) : c \in SetBitInputs}
GetBitCalls == {BitCall("get_bit", 0, i, 0, None) : i \in GetBitInputs}
SetMaskCalls ==
    {BitCall("set_mask", c[1], 0, c[2], None) : c \in SetMaskInputs}

\* register.write(data)
RegWrite ==
    /\ reg # None
    /\ \E c \in RawWrites :
         Commit(RegisterRawWrite(Begin, Pattern(c[1]), c[2]),
                Args("Register.write", Val(reg).address, c[1], c[2], 0, TNone))

\* register.read(size)
RegRead ==
    /\ reg # None
    /\ \E c \in RawReads :
         Commit(RegisterRawRead(Begin, c[1], c[2]),
                Args("Register.read", Val(reg).address, c[1], c[2], 0, TNone))

\* ScaffoldBus.connect(dev) of the bus of ArchBase
LegacyConnect ==
    /\ ~arch.ser
    /\ ArchCommit([ArchBegin EXCEPT !.ser = TRUE],
                  ArchArgs("connect", NoSignal, NoSignal))

\* The number of signals declared so far.
Declared ==
    Len(arch.mtxl_in) + Len(arch.mtxl_out) + Len(arch.mtxr_in)
        + Len(arch.mtxr_out)

\* add_mtxl_in(name)
AddMtxlIn ==
    /\ Declared < Len(Declarations)
    /\ Declarations[Declared + 1][1] = "mtxl_in"
    /\ ArchCommit([ArchBegin EXCEPT
                      !.mtxl_in = Append(@, Declarations[Declared + 1][2])],
                  ArchArgs("add_mtxl_in", NoSignal, NoSignal))

\* add_mtxl_out(name)
AddMtxlOut ==
    /\ Declared < Len(Declarations)
    /\ Declarations[Declared + 1][1] = "mtxl_out"
    /\ ArchCommit([ArchBegin EXCEPT
                      !.mtxl_out = Append(@, Declarations[Declared + 1][2])],
                  ArchArgs("add_mtxl_out", NoSignal, NoSignal))

\* add_mtxr_in(name)
AddMtxrIn ==
    /\ Declared < Len(Declarations)
    /\ Declarations[Declared + 1][1] = "mtxr_in"
    /\ ArchCommit([ArchBegin EXCEPT
                      !.mtxr_in = Append(@, Declarations[Declared + 1][2])],
                  ArchArgs("add_mtxr_in", NoSignal, NoSignal))

\* add_mtxr_out(name)
AddMtxrOut ==
    /\ Declared < Len(Declarations)
    /\ Declarations[Declared + 1][1] = "mtxr_out"
    /\ ArchCommit([ArchBegin EXCEPT
                      !.mtxr_out = Append(@, Declarations[Declared + 1][2])],
                  ArchArgs("add_mtxr_out", NoSignal, NoSignal))

\* sig_connect(a, b)
SigConnectCall ==
    \E dest \in Destinations, src \in Sources :
        ArchCommit(SigConnect(ArchBegin, dest, src),
                   ArchArgs("sig_connect", dest, src))

\* sig_disconnect_all()
SigDisconnectAllCall ==
    ArchCommit(SigDisconnectAll(ArchBegin),
               ArchArgs("sig_disconnect_all", NoSignal, NoSignal))

\* bus.lazy_start()
LazyStartCall ==
    /\ arch.lazy_stack < MaxDepth
    /\ ArchCommit(LazyStart(ArchBegin),
                  ArchArgs("lazy_start", NoSignal, NoSignal))

\* bus.lazy_end()
LazyEndCall ==
    ArchCommit(LazyEnd(ArchBegin), ArchArgs("lazy_end", NoSignal, NoSignal))

\* bus.write(addr, data, poll, poll_mask, poll_value) on the bus of ArchBase
LegacyWriteCall ==
    \E c \in LegacyWrites :
        ArchCommit(LegacyWrite(ArchBegin, 16, Pattern(c[1]), c[2], c[3]),
                   ArchArgs("write", NoSignal, NoSignal))

\* bus.write(addr, data, poll, poll_mask, poll_value) on the bus of
\* ArchBase, for the <<length, poll, timed out>> of Cases
LegacyWriteOf(Cases) ==
    \E c \in Cases :
        ArchCommit(LegacyWrite(ArchBegin, 16, Pattern(c[1]), c[2], c[3]),
                   ArchArgs("write", NoSignal, NoSignal))

\* bus.timeout = value on the bus of ArchBase
LegacyTimeoutSet(Values) ==
    \E value \in Values :
        ArchCommit(LegacySetTimeout(ArchBegin, value),
                   ArchArgs("timeout", NoSignal, NoSignal))

\* bus.timeout = value
TimeoutSet(Values) ==
    \E value \in Values :
      Commit(SetTimeout(Begin, value), Args("timeout", 0, 0, None, 0, value))

\* bus.push_timeout(value)
PushTimeoutCall(Values) ==
    /\ Len(timeout_stack) < MaxStack
    /\ \E value \in Values :
         Commit(PushTimeout(Begin, value),
                Args("push_timeout", 0, 0, None, 0, value))

\* bus.pop_timeout()
PopTimeoutCall ==
    Commit(PopTimeout(Begin), Args("pop_timeout", 0, 0, None, 0, TNone))

\* bus.push_buffer_wait()
PushBufferWaitCall ==
    /\ buffer_wait_stack < MaxDepth
    /\ Commit(PushBufferWait(Begin),
              Args("push_buffer_wait", 0, 0, None, 0, TNone))

\* bus.pop_buffer_wait()
PopBufferWaitCall ==
    Commit(PopBufferWait(Begin),
           Args("pop_buffer_wait", 0, 0, None, 0, TNone))

\* bus.pop_buffer_wait() on a serial port whose write may raise; the header
\* of the section is one object more.
PopBufferWaitOn(Ranks) ==
    \E rank \in Ranks :
        CommitUpTo(PopBufferWait([Begin EXCEPT !.fault = rank]),
                   OnFault(Args("pop_buffer_wait", 0, 0, None, 0, TNone),
                           rank, 0),
                   MaxOps + 1)

\* bus.resolve_next_operation()
ResolveCall ==
    Commit(ResolveNextOperation(Begin),
           Args("resolve_next_operation", 0, 0, None, 0, TNone))

\* Every public call of the bus.
Next ==
    \/ Connect({V09})
    \/ Write(FifoWrites)
    \/ Read(FifoReads)
    \/ Delay
    \/ TimeoutSet({TNone})
    \/ PushTimeoutCall({TSec(u) : u \in TimeoutUnits})
    \/ PopTimeoutCall
    \/ PushBufferWaitCall
    \/ PopBufferWaitCall
    \/ ResolveCall

Spec == Init /\ [][Next]_vars

\* The pipeline: every kind of operation, submitted directly or buffered.
NextPipe ==
    \/ Connect({V09})
    \/ Write(WriteCases)
    \/ Read(ReadCases)
    \/ Delay
    \/ TimeoutSet({TSec(u) : u \in TimeoutUnits})
    \/ PushBufferWaitCall
    \/ PopBufferWaitCall
    \/ ResolveCall

SpecPipe == Init /\ [][NextPipe]_vars

\* Operations the caller keeps and whose result it reads later.
NextHandle ==
    \/ Connect({V09})
    \/ Write(WriteCases)
    \/ SubmitRead
    \/ ReadResult
    \/ PushBufferWaitCall
    \/ PopBufferWaitCall
    \/ ResolveCall

SpecHandle == Init /\ [][NextHandle]_vars

\* The timeout setter and the timeout stack, outside and inside sections.
NextTimeout ==
    \/ Connect({V09})
    \/ TimeoutSet(SetValues)
    \/ PushTimeoutCall(PushValues)
    \/ PopTimeoutCall
    \/ PushBufferWaitCall
    \/ PopBufferWaitCall

SpecTimeout == Init /\ [][NextTimeout]_vars

\* Boards of three revisions: the operations gated on the revision, and
\* those that are not.
NextRevision ==
    \/ Connect(Versions)
    \/ Write({<<255, None, 0>>})
    \/ Read(FifoReads)
    \/ Delay
    \/ TimeoutSet({TSec(u) : u \in TimeoutUnits})
    \/ PushBufferWaitCall
    \/ PopBufferWaitCall

SpecRevision == Init /\ [][NextRevision]_vars

\* Calls with valid and with invalid arguments.
NextValid ==
    \/ Connect({V09})
    \/ WriteTo(Addrs \cup BadAddrs,
               {<<1, poll, 0>> : poll \in {None} \cup BadPolls})
    \/ ReadFrom(Addrs \cup BadAddrs,
                {<<1, poll, 0>> : poll \in {None} \cup BadPolls}
                    \cup {<<size, None, 0>> : size \in BadSizes})
    \/ DelayOf(DelayCycles \cup BadCycles)
    \/ TimeoutSet({TSec(u) : u \in TimeoutUnits})
    \/ PushBufferWaitCall
    \/ PopBufferWaitCall

SpecValid == Init /\ [][NextValid]_vars

\* One register of each access mode, set and read outside and inside
\* buffer-wait sections.
NextRegister ==
    \/ Connect({V09})
    \/ NewRegister
    \/ RegSet
    \/ RegGet
    \/ PushBufferWaitCall
    \/ PopBufferWaitCall

SpecRegister == Init /\ [][NextRegister]_vars

\* One register of each access mode, accessed by value and raw.
NextAccess ==
    \/ Connect({V09})
    \/ NewRegister
    \/ RegSet
    \/ RegGet
    \/ RegWrite
    \/ RegRead

SpecAccess == Init /\ [][NextAccess]_vars

\* Sections of large and small writes flushed into a FIFO that is in use.
NextBatch ==
    \/ Connect({V09})
    \/ Write({<<255, None, 0>>, <<1, None, 0>>, <<1, Poll1, 1>>})
    \/ Read({<<1, None, 0>>})
    \/ PushBufferWaitCall
    \/ PopBufferWaitCall
    \/ ResolveCall

SpecBatch == Init /\ [][NextBatch]_vars

\* Operations of every kind queued, then resolved one call at a time.
NextResolve ==
    \/ Connect({V09})
    \/ Write({<<1, None, 0>>, <<2, Poll1, 1>>})
    \/ SubmitRead
    \/ Delay
    \/ TimeoutSet({TSec(u) : u \in TimeoutUnits})
    \/ PushBufferWaitCall
    \/ PopBufferWaitCall
    \/ ResolveCall

SpecResolve == Init /\ [][NextResolve]_vars

\* bus.write, bus.read, bus.delay, the timeout setter and pop_buffer_wait on
\* a bus that has created at most EncOps operations.
EncWrite ==
    \E c \in EncCases :
      CommitUpTo(BusWrite(Begin, c[1], Pattern(c[2]), c[3], 0),
                 Args("write", c[1], c[2], c[3], 0, TNone), EncOps)
EncRead ==
    \E c \in EncCases :
      CommitUpTo(BusRead(Begin, c[1], c[2], c[3], 0),
                 Args("read", c[1], c[2], c[3], 0, TNone), EncOps)
EncDelay ==
    \E cycles \in EncCycles :
      CommitUpTo(BusDelay(Begin, cycles),
                 Args("delay", 0, 0, None, 0, TSec(cycles)), EncOps)
EncTimeout ==
    \E u \in EncUnits :
      CommitUpTo(SetTimeout(Begin, TSec(u)),
                 Args("timeout", 0, 0, None, 0, TSec(u)), EncOps)
EncPopBufferWait ==
    CommitUpTo(PopBufferWait(Begin),
               Args("pop_buffer_wait", 0, 0, None, 0, TNone), EncOps)

\* Operations of every kind, with addresses, sizes, polling parameters and
\* values that fill every byte of their datagrams.
NextEncode ==
    \/ Connect({V09})
    \/ EncWrite
    \/ EncRead
    \/ EncDelay
    \/ EncTimeout
    \/ PushBufferWaitCall
    \/ EncPopBufferWait

SpecEncode == Init /\ [][NextEncode]_vars

\* Polled writes, from the bus and from a register, that the device may
\* leave unfinished, and polled reads that may time out as well.
NextWriteTimeout ==
    \/ Connect({V09})
    \/ Write({<<2, Poll1, 1>>, <<255, Poll1, 1>>})
    \/ Read({<<1, None, 0>>, <<1, Poll1, 1>>})
    \/ NewRegisterOf({<<{"r", "w"}, 16, 1, None, None>>})
    \/ RegSetPolled
    \/ RegGet
    \/ ResolveCall

SpecWriteTimeout == Init /\ [][NextWriteTimeout]_vars

\* One register of each access mode, its bits set and read one by one.
NextBits ==
    \/ Connect({V09})
    \/ NewRegister
    \/ RegSet
    \/ RegBits(OrSetCalls)
    \/ RegBits(SetBitCalls)
    \/ RegBits(GetBitCalls)
    \/ RegBits(SetMaskCalls)

SpecBits == Init /\ [][NextBits]_vars

\* bus.write, bus.read and bus.resolve_next_operation() on a serial port
\* that raises; a fault is <<rank of the failing write, of the failing read>>.
WriteOn(Cases, Fs) ==
    \E addr \in Addrs, c \in Cases, f \in Fs :
      Commit(BusWrite([Begin EXCEPT !.fault = f[1], !.rfault = f[2]],
                      addr, Pattern(c[1]), c[2], c[3]),
             OnFault(Args("write", addr, c[1], c[2], c[3], TNone), f[1], f[2]))
ReadOn(Cases, Fs) ==
    \E addr \in Addrs, c \in Cases, f \in Fs :
      Commit(BusRead([Begin EXCEPT !.fault = f[1], !.rfault = f[2]],
                     addr, c[1], c[2], c[3]),
             OnFault(Args("read", addr, c[1], c[2], c[3], TNone), f[1], f[2]))
ResolveOn(Fs) ==
    \E f \in Fs :
      Commit(ResolveNextOperation([Begin EXCEPT !.fault = f[1],
                                                !.rfault = f[2]]),
             OnFault(Args("resolve_next_operation", 0, 0, None, 0, TNone),
                     f[1], f[2]))

\* Writes, reads and resolutions through a serial port that may fail.
NextTransport ==
    \/ Connect({V09})
    \/ Write({<<255, None, 0>>, <<1, Poll1, 1>>})
    \/ WriteOn({<<255, None, 0>>, <<256, None, 0>>}, WriteFaults)
    \/ ReadOn({<<1, None, 0>>}, ReadFaults)
    \/ ResolveOn({<<0, 0>>, <<0, 1>>})

SpecTransport == Init /\ [][NextTransport]_vars

\* with bus.timeout_section(value): body
TimeoutSectionCall(Values, Bodies) ==
    /\ Len(timeout_stack) < MaxStack
    /\ \E value \in Values, body \in Bodies :
         Commit(TimeoutSection(Begin, value, body),
                Args("timeout_section", 0, 0, None, 0, value))

\* Timeout sections whose body completes or raises, on a bus whose timeout
\* is unset, disabled or set.
NextSection ==
    \/ Connect({V09})
    \/ TimeoutSet(SetValues)
    \/ TimeoutSectionCall(PushValues, {"pass", "raise"})
    \/ PushTimeoutCall({TSec(5)})
    \/ PopTimeoutCall

SpecSection == Init /\ [][NextSection]_vars

\* Sections flushed through a serial port that may fail.
NextFault ==
    \/ Connect({V09})
    \/ Write({<<1, None, 0>>, <<1, Poll1, 1>>})
    \/ PushBufferWaitCall
    \/ PopBufferWaitOn(Faults)
    \/ ResolveCall

SpecFault == Init /\ [][NextFault]_vars

\* The router: signals declared, connected and disconnected, outside and
\* inside lazy sections of the bus of ArchBase.
NextRouter ==
    \/ LegacyConnect
    \/ AddMtxlIn
    \/ AddMtxlOut
    \/ AddMtxrIn
    \/ AddMtxrOut
    \/ SigConnectCall
    \/ SigDisconnectAllCall
    \/ LazyStartCall
    \/ LazyEndCall
    \/ LegacyWriteCall

SpecRouter == Init /\ [][NextRouter]_vars

\* Lazy sections of the bus of ArchBase: writes that fill the FIFO, some of
\* them timing out, and the timeout configured inside and outside sections.
NextLazy ==
    \/ LegacyConnect
    \/ LazyStartCall
    \/ LazyEndCall
    \/ LegacyWriteOf(LazyWrites)
    \/ LegacyTimeoutSet(LazyTimeouts)

SpecLazy == Init /\ [][NextLazy]_vars

\* Writes and reads of one, two and three chunks, resolved by the FIFO
\* pressure of later operations and by the reads.
NextChunk ==
    \/ Connect({V09})
    \/ Write(WriteChunkCases)
    \/ Read(ReadChunkCases)
    \/ PushBufferWaitCall
    \/ PopBufferWaitCall

SpecChunk == Init /\ [][NextChunk]_vars

\* ------------------------------------------------------------ observations
\* Identifiers of the objects the last call created, in creation order.
Created == [i \in 1..(Len(objs) - call.first + 1) |-> call.first + i - 1]
IsWrite(e) == e.t = "write"
IsRead(e) == e.t = "read"
\* Identifiers the last call wrote to, read from, the transport, in order.
Ids(events) == [i \in 1..Len(events) |-> events[i].id]
Written == Ids(SelectSeq(wire, IsWrite))
Consumed == Ids(SelectSeq(wire, IsRead))
Range(f) == {f[i] : i \in DOMAIN f}
Resolved(id) == objs[id].status \in {"COMPLETED", "TIMEOUT", "FREED"}

\* The value of the timeout property in the current state.
Effective ==
    IF cache_timeout = None THEN TErr
    ELSE IF Val(cache_timeout) = 0 THEN TNone
    ELSE TSec(Val(cache_timeout))

\* Concatenation of the payloads, of the results, of a sequence of objects.
RECURSIVE ConcatData(_, _)
ConcatData(heap, ids) ==
    IF ids = <<>> THEN <<>>
    ELSE heap[Head(ids)].op.data \o ConcatData(heap, Tail(ids))
RECURSIVE ConcatResults(_, _)
ConcatResults(heap, ids) ==
    IF ids = <<>> THEN <<>>
    ELSE Val(heap[Head(ids)].result) \o ConcatResults(heap, Tail(ids))
RECURSIVE SumSizes(_, _)
SumSizes(heap, ids) ==
    IF ids = <<>> THEN 0
    ELSE heap[Head(ids)].op.size + SumSizes(heap, Tail(ids))
\* The last n elements of a sequence.
Last(seq, n) == SubSeq(seq, Len(seq) - n + 1, Len(seq))
\* ceil(n / MAX_CHUNK)
Chunks(n) == (n + MAX_CHUNK - 1) \div MAX_CHUNK

\* ------------------------------------------------------------------ claims
\* C1: in every state between public calls (write, read, delay, timeout
\* set/push/pop, buffer-wait enter/exit, resolve) the FIFO shadow counter
\* equals the sum of the datagram lengths of the operations in the
\* unresolved queue, hence 0 when the queue is empty.
C1_CounterIsSumOfFootprints ==
    /\ fifo_size = SumDatagrams(objs, operations)
    /\ operations = <<>> => fifo_size = 0

\* A queue of two operations or more, after some operation was resolved.
C1_Witness ==
    /\ Len(operations) >= 2
    /\ fifo_size > FIFO_SIZE \div 2
    /\ resolved # <<>>

\* C2: whenever a datagram of length n is written to the transport the
\* counter c satisfies c + n <= 512, and the counter never exceeds 512.
C2_NeverOverflowsFifo ==
    /\ \A i \in 1..Len(wire) :
         wire[i].t = "write" => wire[i].c + wire[i].n <= FIFO_SIZE
    /\ fifo_size <= FIFO_SIZE

\* A write that had to wait: a forced resolution, then a datagram that would
\* not have fitted before it.
C2_Witness ==
    \E i, j \in 1..Len(wire) :
      /\ i < j
      /\ wire[i].t = "read"
      /\ wire[j].t = "write"
      /\ wire[i].c + wire[j].n > FIFO_SIZE

\* C3: operations are resolved in submission order: the k-th resolution is
\* that of the k-th operation written to the transport, and an operation
\* written after an unresolved one is unresolved too.
C3_ResolvedInSubmissionOrder ==
    /\ Len(resolved) <= Len(sent)
    /\ \A k \in 1..Len(resolved) : resolved[k] = sent[k]
    /\ \A k \in 1..Len(sent) :
         k > Len(resolved) <=> objs[sent[k]].status = "SENT"
    /\ operations = SubSeq(sent, Len(resolved) + 1, Len(sent))

\* Two resolutions of operations submitted in another order than that of
\* their creation (a buffer-wait header goes first), one more still queued.
C3_Witness ==
    /\ Len(resolved) >= 2
    /\ resolved[1] > resolved[2]
    /\ Len(sent) > Len(resolved)

\* C4 as claimed: after .result was read on an operation, that operation and
\* every operation written to the transport before it are resolved.
C4_ResultResolvesAnyOperation ==
    (/\ call.args.name = "result"
     /\ call.args.id \in Range(sent) \cup Range(buffer_wait_operations)) =>
        /\ objs[call.args.id].status \in {"COMPLETED", "TIMEOUT"}
        /\ \A k \in 1..Len(sent) :
             (\A j \in 1..k : sent[j] # call.args.id) => Resolved(sent[k])

\* C4, amended: .result on an operation that was written to the transport
\* (status SENT, or resolved already) consumes the responses of the older
\* unresolved operations oldest first, then its own, writes nothing, and
\* returns or raises the timeout failure with every operation written before
\* it resolved; on an operation not written yet (status PENDING: buffered in
\* an open buffer-wait section) it raises an error and resolves nothing.
C4_ResultResolvesOlderFirst ==
    call.args.name = "result" =>
        LET id == call.args.id
        IN IF objs[id].status = "PENDING"
           THEN call.exc = "RuntimeError" /\ wire = <<>>
           ELSE /\ call.exc \in {NoExc, "TimeoutError"}
                /\ objs[id].status \in {"COMPLETED", "TIMEOUT"}
                /\ Written = <<>>
                /\ \E p \in 1..Len(resolved) :
                     /\ resolved[p] = id
                     /\ \A q \in 1..p : Resolved(sent[q])
                     /\ Len(Consumed) <= p
                     /\ Consumed # <<>> =>
                          Consumed = SubSeq(sent, p - Len(Consumed) + 1, p)

\* .result forced the resolution of two older operations and of its own.
C4_Witness ==
    /\ call.args.name = "result"
    /\ call.exc = NoExc
    /\ Len(Consumed) >= 3
    /\ Consumed[Len(Consumed)] = call.args.id

\* C5: a resolved write operation of payload length L (1..255) is COMPLETED
\* if and only if the device reported L completed bytes; otherwise it is
\* TIMEOUT and the device reported fewer than L.  A write is resolved, with
\* one of the two statuses, exactly when its response was consumed.
C5_WriteStatusIffCount ==
    \A id \in 1..Len(objs) :
      (objs[id].op.kind = "write" /\ objs[id].status # "FREED") =>
        LET L == Len(objs[id].op.data)
            count == DeviceResponse(objs[id])[1]
        IN /\ L \in 1..MAX_CHUNK
           /\ id \in Range(resolved)
                <=> objs[id].status \in {"COMPLETED", "TIMEOUT"}
           /\ objs[id].status = "COMPLETED"
                <=> (id \in Range(resolved) /\ count = L)
           /\ objs[id].status = "TIMEOUT"
                <=> (id \in Range(resolved) /\ count < L)

\* A call left a write of 255 bytes timed out after a completed one.
C5_Witness ==
    \E i, j \in 1..Len(objs) :
      /\ objs[i].op.kind = "write" /\ objs[i].status = "COMPLETED"
      /\ objs[j].op.kind = "write" /\ objs[j].status = "TIMEOUT"
      /\ Len(objs[i].op.data) = MAX_CHUNK
      /\ Len(objs[j].op.data) > 1

\* C6: for a read operation of size N (one chunk of Bus.read) answered by N
\* data bytes and the count k: if k = N the result is exactly the N data
\* bytes; if k < N the status is TIMEOUT and reading the result raises a
\* timeout failure carrying the first k bytes, size k and expected size N.
C6_ReadResultOrTimeout ==
    (/\ call.args.name = "read"
     /\ call.args.size <= MAX_CHUNK
     /\ call.depth = 0
     /\ connected
     /\ Len(objs) >= call.first) =>
        LET obj == objs[call.first]
            N == obj.op.size
            resp == DeviceResponse(obj)
            k == resp[Len(resp)]
        IN /\ N = call.args.size
           /\ Len(resp) = N + 1
           /\ k = N => /\ call.exc = NoExc
                       /\ obj.status = "COMPLETED"
                       /\ call.ret = Some(SubSeq(resp, 1, N))
           /\ k < N => /\ call.exc = "TimeoutError"
                       /\ obj.status = "TIMEOUT"
                       /\ call.err.data = Some(SubSeq(resp, 1, k))
                       /\ call.err.size = Some(k)
                       /\ call.err.expected = Some(N)

\* A read of 255 bytes that timed out with some bytes received.
C6_Witness ==
    /\ call.args.name = "read"
    /\ call.args.size = MAX_CHUNK
    /\ call.exc = "TimeoutError"
    /\ Val(call.err.size) > 0

\* C7 as claimed: a Bus.read without polling leaves its operation in the
\* unresolved queue, its response not consumed.
C7_UnpolledReadLeftPending ==
    (/\ call.args.name = "read"
     /\ call.args.poll = None
     /\ call.exc = NoExc) =>
        /\ \A i \in 1..Len(Created) : Created[i] \in Range(operations)
        /\ Consumed = <<>>

\* C7, amended: Bus.read forces the resolution of each of its read
\* operations immediately after submission, whether or not a polling
\* predicate is given: when it returns, or raises because one timed out, the
\* responses of all the operations it wrote were consumed and the unresolved
\* queue is empty.
C7_ReadAlwaysResolved ==
    (/\ call.args.name = "read"
     /\ call.exc \in {NoExc, "TimeoutError"}) =>
        /\ Created # <<>>
        /\ Written = Created
        /\ \A i \in 1..Len(Created) :
             /\ objs[Created[i]].status \in {"COMPLETED", "TIMEOUT"}
             /\ Created[i] \in Range(Consumed)
        /\ Consumed[Len(Consumed)] = Created[Len(Created)]
        /\ operations = <<>>

\* A read without polling that returned after consuming the response of an
\* older operation and its own.
C7_Witness ==
    /\ call.args.name = "read"
    /\ call.args.poll = None
    /\ call.exc = NoExc
    /\ \E i \in 1..Len(Consumed) : Consumed[i] < call.first

\* C8: on a connected bus a Bus.write of L >= 1 bytes to address a hands ceil(L/255) write
\* operations to the bus, in order (written to the transport in that order,
\* or buffered in that order inside a buffer-wait section), all to address a
\* with the polling parameters of the call, each of 1..255 payload bytes,
\* the payloads concatenated being the data; a Bus.read of size S submits
\* ceil(S/255) read operations whose sizes sum to S and returns the
\* concatenation of their results in order.
C8_Chunking ==
    /\ (call.args.name = "write" /\ connected) =>
         /\ call.exc = NoExc
         /\ Len(Created) = Chunks(call.args.size)
         /\ \A i \in 1..Len(Created) :
              LET op == objs[Created[i]].op
              IN /\ op.kind = "write"
                 /\ op.addr = call.args.addr
                 /\ op.poll = call.args.poll
                 /\ Len(op.data) \in 1..MAX_CHUNK
         /\ ConcatData(objs, Created) = Pattern(call.args.size)
         /\ IF call.depth = 0 THEN Written = Created
            ELSE /\ Written = <<>>
                 /\ Len(buffer_wait_operations) >= Len(Created)
                 /\ Last(buffer_wait_operations, Len(Created)) = Created
    /\ (call.args.name = "read" /\ call.exc = NoExc) =>
         /\ Len(Created) = Chunks(call.args.size)
         /\ \A i \in 1..Len(Created) :
              LET op == objs[Created[i]].op
              IN /\ op.kind = "read"
                 /\ op.addr = call.args.addr
                 /\ op.poll = call.args.poll
                 /\ op.size \in 1..MAX_CHUNK
         /\ SumSizes(objs, Created) = call.args.size
         /\ Written = Created
         /\ call.ret = Some(ConcatResults(objs, Created))
         /\ Len(Val(call.ret)) = call.args.size

\* A write of three chunks went through, the last chunk being one byte.
C8_Witness ==
    /\ call.args.name = "write"
    /\ call.exc = NoExc
    /\ Len(Created) = 3
    /\ Len(objs[Created[3]].op.data) = 1
    /\ Written = Created

\* C9: on a connected bus a call made while a buffer-wait section is open
\* (nesting depth > 0 when it is made) writes no datagram
\* to the transport unless it is the exit that brings the depth back to 0;
\* the operations requested while the section stays open are appended to the
\* host-side buffer, not sent, and leaving an inner section writes nothing.
C9_NothingWrittenInsideSection ==
    (call.depth > 0 /\ connected) =>
        /\ Written # <<>> =>
             (call.args.name = "pop_buffer_wait" /\ buffer_wait_stack = 0)
        /\ buffer_wait_stack > 0 =>
             /\ Written = <<>>
             /\ Len(buffer_wait_operations) >= Len(Created)
             /\ Last(buffer_wait_operations, Len(Created)) = Created
             /\ \A i \in 1..Len(Created) :
                  /\ objs[Created[i]].status = "PENDING"
                  /\ Created[i] \notin Range(sent)

\* An inner section was left with two operations buffered.
C9_Witness ==
    /\ call.args.name = "pop_buffer_wait"
    /\ call.depth = 2
    /\ connected
    /\ buffer_wait_stack = 1
    /\ Len(buffer_wait_operations) >= 2
    /\ Written = <<>>

\* What an outermost exit does when it flushes: one header declaring the
\* summed datagram lengths of the buffered operations, then these, in order,
\* nothing else; the buffer ends empty and the queue ends with them.
Flushed ==
    LET k == Len(buffer_wait_operations)
        hdr == Len(objs) + 1
    IN /\ Len(objs') = hdr
       /\ objs'[hdr].op =
            BufferWaitOp(SumDatagrams(objs, buffer_wait_operations))
       /\ Written' = <<hdr>> \o buffer_wait_operations
       /\ Len(Written') = k + 1
       /\ buffer_wait_operations' = <<>>
       /\ Len(operations') >= k + 1
       /\ Last(operations', k + 1) = <<hdr>> \o buffer_wait_operations

\* C10 as claimed: every outermost exit of a buffer-wait section (on a
\* connected bus) writes the header and the k buffered datagrams.
C10_OutermostExitAlwaysFlushes ==
    [][(/\ call'.args.name = "pop_buffer_wait"
        /\ buffer_wait_stack = 1
        /\ connected) => Flushed]_vars

\* C10, amended: on a connected bus (of a revision that has buffer-wait)
\* an outermost exit whose k buffered datagrams total at
\* most 509 bytes (512 with the 3-byte header) writes exactly k+1 datagrams,
\* the header declaring that total and then the k buffered datagrams in the
\* order of their request, leaving the buffer empty and the k+1 operations
\* at the end of the unresolved queue in that order; a larger section makes
\* the exit raise, nothing being written and the buffer left as it was.
C10_OutermostExitFlushes ==
    [][(/\ call'.args.name = "pop_buffer_wait"
        /\ buffer_wait_stack = 1
        /\ connected) =>
          IF SumDatagrams(objs, buffer_wait_operations) + 3 <= FIFO_SIZE
          THEN call'.exc = NoExc /\ Flushed
          ELSE /\ call'.exc = "RuntimeError"
               /\ Written' = <<>>
               /\ buffer_wait_operations' = buffer_wait_operations]_vars

\* An outermost exit flushed two buffered operations behind their header.
C10_Witness ==
    /\ call.args.name = "pop_buffer_wait"
    /\ call.depth = 1
    /\ call.exc = NoExc
    /\ Len(Written) = 3
    /\ objs[Written[1]].op.kind = "buffer_wait"
    /\ objs[Written[1]].op.value > 3
    /\ Last(operations, 3) = Written

\* C11: closing a buffer-wait section when none is open (nesting depth 0)
\* raises an error, writes no datagram and leaves the nesting depth, the
\* host-side buffer, the unresolved queue and the shadow counter unchanged;
\* the nesting depth is never negative.
C11_UnopenedExitRaises ==
    [][/\ buffer_wait_stack >= 0 /\ buffer_wait_stack' >= 0
       /\ (call'.args.name = "pop_buffer_wait" /\ buffer_wait_stack = 0) =>
            /\ call'.exc = "RuntimeError"
            /\ wire' = <<>>
            /\ UNCHANGED <<buffer_wait_stack, buffer_wait_operations,
                           operations, fifo_size>>]_vars

\* An exit was refused at depth 0 while operations were queued and others
\* were left in the buffer by a section that was too large.
C11_Witness ==
    /\ call.args.name = "pop_buffer_wait"
    /\ call.depth = 0
    /\ call.exc = "RuntimeError"
    /\ operations # <<>>
    /\ buffer_wait_operations # <<>>

\* C12: pop_timeout on an empty timeout stack raises an error, submits no
\* timeout-configuration datagram and leaves the effective timeout and the
\* stack unchanged; on a non-empty stack (of a connected bus, the top entry
\* being a duration or disabled) it removes exactly the top entry and makes
\* it the effective timeout.
C12_PopRestoresTop ==
    [][call'.args.name = "pop_timeout" =>
         IF timeout_stack = <<>>
         THEN /\ call'.exc = "RuntimeError"
              /\ wire' = <<>>
              /\ Len(objs') = Len(objs)
              /\ UNCHANGED <<cache_timeout, timeout_stack>>
         ELSE (connected
               /\ timeout_stack[Len(timeout_stack)].t # "RuntimeError") =>
                /\ timeout_stack' =
                       SubSeq(timeout_stack, 1, Len(timeout_stack) - 1)
                /\ Effective' = timeout_stack[Len(timeout_stack)]]_vars

\* C13: on a bus whose timeout is t0 (a duration or disabled) a successful
\* push_timeout(x) saves t0 on the stack, and the pop_timeout() that follows
\* it leaves the effective timeout equal to t0 and the stack as it was
\* before the push.
C13_PushPopRestores ==
    [][/\ (/\ call'.args.name = "push_timeout"
           /\ call'.exc = NoExc
           /\ Effective.t # "RuntimeError") =>
             timeout_stack' = Append(timeout_stack, Effective)
       /\ (/\ call.args.name = "push_timeout"
           /\ call.exc = NoExc
           /\ call'.args.name = "pop_timeout") =>
             /\ call'.exc = NoExc
             /\ Effective' = timeout_stack[Len(timeout_stack)]
             /\ timeout_stack' =
                    SubSeq(timeout_stack, 1, Len(timeout_stack) - 1)]_vars

\* a <= b for two values of the timeout property, disabled being larger
\* than every duration.
NoLonger(a, b) ==
    b.t = "None" \/ (a.t # "None" /\ Twice(a) <= Twice(b))
\* A requested duration, raised to one unit when it is shorter.
AtLeastOneUnit(x) ==
    IF x.t # "None" /\ Twice(x) < 2 THEN TSec(1) ELSE x

Encoding(value) == IF value.t = "None" THEN 0 ELSE Max(1, IntDiv(value))
\* The timeout-configuration operations handed to the bus so far.
SubmittedTimeouts ==
    {id \in 1..Len(objs) :
        /\ objs[id].op.kind = "timeout"
        /\ objs[id].status # "FREED"
        /\ id \in Range(operations) \cup Range(buffer_wait_operations)
                    \cup Range(resolved)}
\* The cache is the value of the last of them, unset if there is none.
CacheIsLastSubmitted ==
    IF SubmittedTimeouts = {} THEN cache_timeout = None
    ELSE LET last == CHOOSE id \in SubmittedTimeouts :
                        \A other \in SubmittedTimeouts : other <= id
         IN cache_timeout = Some(objs[last].op.value)

RECURSIVE ParseVersion(_, _)
ParseVersion(str, number) ==
    IF str = <<>> THEN <<number>>
    ELSE IF Head(str) = 46 THEN <<number>> \o ParseVersion(Tail(str), 0)
    ELSE ParseVersion(Tail(str), 10 * number + Head(str) - 48)
\* a >= b for two sequences of numbers, compared number by number.
RECURSIVE NumbersGE(_, _)
NumbersGE(a, b) ==
    IF b = <<>> THEN TRUE
    ELSE IF a = <<>> THEN FALSE
    ELSE IF Head(a) # Head(b) THEN Head(a) > Head(b)
    ELSE NumbersGE(Tail(a), Tail(b))
\* The revision of the board is 0.9 or later, as dotted version numbers.
AtLeast09 == NumbersGE(ParseVersion(Val(version), 0), ParseVersion(V09, 0))

\* C16: on a connected board, Bus.delay and the exit of an outermost
\* buffer-wait section (which submits the buffer-wait header) are accepted
\* on every revision at or above 0.9, revisions compared as dotted version
\* numbers, and on every revision below 0.9 raise an error with nothing
\* written to the transport and the unresolved queue and the shadow counter
\* unchanged; writes and timeout configurations are accepted, and reads
\* submitted, on every revision.
C16_RevisionGate ==
    [][connected =>
         /\ (\/ call'.args.name = "delay"
             \/ (call'.args.name = "pop_buffer_wait" /\ buffer_wait_stack = 1
                 /\ SumDatagrams(objs, buffer_wait_operations) + 3
                        <= FIFO_SIZE)) =>
               IF AtLeast09 THEN call'.exc = NoExc
               ELSE /\ call'.exc = "RuntimeError"
                    /\ SelectSeq(wire', IsWrite) = <<>>
                    /\ UNCHANGED <<operations, fifo_size>>
         /\ call'.args.name \in {"write", "timeout"} => call'.exc = NoExc
         /\ (call'.args.name = "read" /\ buffer_wait_stack = 0) =>
               call'.exc \in {NoExc, "TimeoutError"}]_vars

\* The last call was given an argument out of range.
InvalidPoll(poll) ==
    /\ poll # None
    /\ \/ Val(poll).addr \notin 0..65535
       \/ Val(poll).mask \notin 0..255
       \/ Val(poll).value \notin 0..255
InvalidArguments ==
    \/ /\ call.args.name \in {"write", "read"}
       /\ (call.args.addr \notin 0..65535 \/ InvalidPoll(call.args.poll))
    \/ call.args.name = "read" /\ call.args.size < 0
    \/ call.args.name = "delay" /\ call.args.value.u \notin 0..16777215
    \/ /\ call.args.name = "timeout"
       /\ Encoding(call.args.value) \div 65536 \notin 0..65535

\* C17: on a connected bus every Bus.write, Bus.read, Bus.delay or timeout
\* configuration called with an invalid argument raises a validation error
\* before any byte is written to the transport and leaves the unresolved
\* queue, the buffer and the shadow counter unchanged.
C17_InvalidArgumentsRejected ==
    [][(connected /\ InvalidArguments') =>
         /\ call'.exc = "ValueError"
         /\ wire' = <<>>
         /\ UNCHANGED <<operations, buffer_wait_operations, fifo_size>>]_vars

\* The integer a sequence of bytes denotes, most significant byte first.
RECURSIVE FromBytes(_)
FromBytes(data) ==
    IF data = <<>> THEN 0
    ELSE 256 * FromBytes(SubSeq(data, 1, Len(data) - 1)) + data[Len(data)]

\* C18: set(value) with value below the minimum or above the maximum of the
\* register raises ValueError, constructs no write operation, writes nothing
\* to the transport and leaves the register, its cache included, as it was.
\* set(value) within the bounds of a writable register issues one write to
\* the address of the register whose payload is exactly `wideness` bytes and
\* denotes value most significant byte first; when that write returns the
\* cache is value, and when it raises the cache is unchanged.
C18_SetValidatesSerializesCaches ==
    [][call'.args.name = "set" =>
        LET r == Val(reg)
            v == call'.args.value.u
        IN IF v < r.min_value \/ v > r.max_value
           THEN /\ call'.exc = "ValueError"
                /\ Len(objs') = Len(objs)
                /\ wire' = <<>>
                /\ UNCHANGED <<reg, operations, buffer_wait_operations,
                               fifo_size>>
           ELSE r.w =>
                /\ Len(objs') = Len(objs) + 1
                /\ objs'[Len(objs')].op.kind = "write"
                /\ objs'[Len(objs')].op.addr = r.address
                /\ objs'[Len(objs')].op.poll = call'.args.poll
                /\ Len(objs'[Len(objs')].op.data) = r.wideness
                /\ FromBytes(objs'[Len(objs')].op.data) = v
                /\ IF call'.exc = NoExc
                   THEN reg' = Some([r EXCEPT !.cache = Some(v)])
                   ELSE reg' = reg]_vars

\* A two-byte register was set to 258: the bytes 1, 2 went to the board
\* behind a three-byte head and the cache holds 258.
C18_Witness ==
    /\ call.args.name = "set"
    /\ call.exc = NoExc
    /\ call.args.value.u = 258
    /\ reg # None
    /\ Val(reg).wideness = 2
    /\ Val(reg).cache = Some(258)
    /\ objs[Len(objs)].op.data = <<1, 2>>
    /\ wire # <<>>
    /\ wire[Len(wire)].n = 6

\* C19: on a register that is not volatile, a set that returns leaves value
\* in the cache, whatever the value (0 included) and whether or not the
\* register is readable; a cache that holds a value is changed by no call
\* but a set that returns; and get() on a register whose cache holds a value
\* returns that value without constructing an operation and without any
\* transport access.  Together: every get after a successful set(v), until
\* the next one, returns v from the cache.
C19_CachedGetAfterSet ==
    [][(reg # None /\ ~Val(reg).volatile) =>
        LET r == Val(reg)
        IN /\ (call'.args.name = "set" /\ call'.exc = NoExc) =>
                  Val(reg').cache = Some(call'.args.value.u)
           /\ (r.cache # None /\ ~(call'.args.name = "set" /\ call'.exc = NoExc))
                  => reg' = reg
           /\ (r.cache # None /\ call'.args.name = "get") =>
                  /\ call'.exc = NoExc
                  /\ call'.ret = r.cache
                  /\ wire' = <<>>
                  /\ Len(objs') = Len(objs)
                  /\ UNCHANGED <<operations, buffer_wait_operations,
                                 fifo_size>>]_vars

\* A write-only register was set to 0 and get() then returned 0 with the
\* transport untouched.
C19_Witness ==
    /\ call.args.name = "get"
    /\ call.exc = NoExc
    /\ call.ret = Some(0)
    /\ reg # None
    /\ ~Val(reg).r
    /\ ~Val(reg).volatile
    /\ Val(reg).cache = Some(0)
    /\ wire = <<>>
    /\ connected

\* C20: get() on a volatile register that is readable constructs exactly one
\* read operation, of one byte, at the address of the register, whatever the
\* cache holds; when it returns, the value is the byte the board answered
\* for that operation, the request and the answer crossed the transport, and
\* the cache is as it was.  get() on a volatile register that is not readable
\* raises RuntimeError with no operation constructed, nothing on the
\* transport and nothing changed.
C20_VolatileGetReadsTheBoard ==
    [][(call'.args.name = "get" /\ Val(reg).volatile) =>
        LET r == Val(reg)
            id == Len(objs')
        IN IF r.r
           THEN /\ Len(objs') = Len(objs) + 1
                /\ objs'[id].op = ReadOp(r.address, 1, None)
                /\ reg' = reg
                /\ call'.exc = NoExc =>
                      /\ objs'[id].status = "COMPLETED"
                      /\ call'.ret = Some(Val(objs'[id].result)[1])
                      /\ call'.ret = Some(DeviceResponse(objs'[id])[1])
                      /\ \E i \in 1..Len(wire') :
                            wire'[i] = WriteEvent(id, 3, wire'[i].c)
                      /\ wire'[Len(wire')] =
                            ReadEvent(id, 2, wire'[Len(wire')].c)
           ELSE /\ call'.exc = "RuntimeError"
                /\ Len(objs') = Len(objs)
                /\ wire' = <<>>
                /\ UNCHANGED <<reg, operations, buffer_wait_operations,
                               fifo_size>>]_vars

\* A volatile register whose cache holds 3, from an earlier set, was read:
\* get() returned 7, the byte the board answered.
C20_Witness ==
    /\ call.args.name = "get"
    /\ call.exc = NoExc
    /\ reg # None
    /\ Val(reg).volatile
    /\ Val(reg).cache = Some(3)
    /\ call.ret = Some(7)
    /\ Len(wire) >= 2

\* C21: get() on a register that is not volatile.  Readable with an empty
\* cache: exactly one read operation is constructed, of one byte at the
\* address of the register, and when get() returns, the value is the byte
\* the board answered and the cache holds it (when it raises, the cache is
\* still empty).  Cache filled: the cached value is returned, no operation
\* is constructed, nothing crosses the transport, the cache is unchanged, so
\* that any number of further get() return the same value.  Neither readable
\* nor cached: RuntimeError with no operation and no transport access.
C21_GetFillsCacheOnce ==
    [][(call'.args.name = "get" /\ ~Val(reg).volatile) =>
        LET r == Val(reg)
            id == Len(objs')
        IN IF r.cache # None
           THEN /\ call'.exc = NoExc
                /\ call'.ret = r.cache
                /\ Len(objs') = Len(objs)
                /\ wire' = <<>>
                /\ UNCHANGED <<reg, operations, buffer_wait_operations,
                               fifo_size>>
           ELSE IF r.r
           THEN /\ Len(objs') = Len(objs) + 1
                /\ objs'[id].op = ReadOp(r.address, 1, None)
                /\ IF call'.exc = NoExc
                   THEN /\ call'.ret = Some(DeviceResponse(objs'[id])[1])
                        /\ reg' = Some([r EXCEPT !.cache = call'.ret])
                        /\ wire'[Len(wire')] =
                              ReadEvent(id, 2, wire'[Len(wire')].c)
                   ELSE reg' = reg
           ELSE /\ call'.exc = "RuntimeError"
                /\ Len(objs') = Len(objs)
                /\ wire' = <<>>
                /\ UNCHANGED <<reg, operations, buffer_wait_operations,
                               fifo_size>>]_vars

\* A readable register whose cache was filled with 7 by a first get() (no
\* set stores 7) answered a later get() with 7 and no transport access.
C21_Witness ==
    /\ call.args.name = "get"
    /\ call.exc = NoExc
    /\ call.ret = Some(7)
    /\ reg # None
    /\ Val(reg).r
    /\ ~Val(reg).volatile
    /\ Val(reg).cache = Some(7)
    /\ wire = <<>>
    /\ Len(objs) = call.first - 1

\* C22 as stated: get() on a register of more than one byte raises in every
\* state, whatever sets preceded it.
C22_WideGetAlwaysRaises ==
    [][(call'.args.name = "get" /\ Val(reg).wideness > 1) =>
          call'.exc # NoExc]_vars

\* C22, amended: a register of more than one byte is never readable (its
\* construction with 'r' in the mode raises ValueError and builds nothing);
\* get() on it raises RuntimeError, with no operation constructed and no
\* transport access, when it is volatile or its cache is empty; once a set
\* has filled the cache of one that is not volatile, get() returns the
\* cached value, still with no operation and no transport access.
C22_WideIsWriteOnly ==
    [][/\ (reg' # None /\ Val(reg').wideness > 1) => ~Val(reg').r
       /\ (call'.args.name = "get" /\ Val(reg).wideness > 1) =>
            /\ Len(objs') = Len(objs)
            /\ wire' = <<>>
            /\ UNCHANGED <<reg, operations, buffer_wait_operations,
                           fifo_size>>
            /\ IF Val(reg).volatile \/ Val(reg).cache = None
               THEN call'.exc = "RuntimeError"
               ELSE call'.exc = NoExc /\ call'.ret = Val(reg).cache]_vars

\* get() on a two-byte register that was set to 258 returned 258.
C22_Witness ==
    /\ call.args.name = "get"
    /\ reg # None
    /\ Val(reg).wideness = 2
    /\ ~Val(reg).r
    /\ Val(reg).cache = Some(258)
    /\ call.exc = NoExc
    /\ call.ret = Some(258)
    /\ wire = <<>>

\* C23: set(value) and write(data) on a register that is not writable raise
\* (RuntimeError; ValueError when set is given a value outside the bounds),
\* and read(size) on a register that is not readable raises RuntimeError; in
\* all three cases no operation is constructed, nothing crosses the
\* transport, and the register, its cache included, is as it was.
C23_CapabilityErrors ==
    [][LET name == call'.args.name
           denied == \/ name \in {"set", "Register.write"} /\ ~Val(reg).w
                     \/ name = "Register.read" /\ ~Val(reg).r
       IN denied =>
            /\ call'.exc \in {"RuntimeError", "ValueError"}
            /\ call'.exc = "ValueError" =>
                  /\ name = "set"
                  /\ \/ call'.args.value.u < Val(reg).min_value
                     \/ call'.args.value.u > Val(reg).max_value
            /\ Len(objs') = Len(objs)
            /\ wire' = <<>>
            /\ UNCHANGED <<reg, operations, buffer_wait_operations,
                           fifo_size>>]_vars

\* A raw write to a read-only register whose cache holds 7 was refused on a
\* connected bus, the cache still holding 7.
C23_Witness ==
    /\ call.args.name = "Register.write"
    /\ call.exc = "RuntimeError"
    /\ connected
    /\ reg # None
    /\ ~Val(reg).w
    /\ Val(reg).cache = Some(7)
    /\ wire = <<>>

\* The paths of the destination and of the source of the sig_connect that
\* led to the next state, and whether both signals have one.
DestPath == SignalToPath(arch'.call.dest).path
SrcPath == SignalToPath(arch'.call.src).path
HavePaths ==
    /\ SignalToPath(arch'.call.dest).exc = NoExc
    /\ SignalToPath(arch'.call.src).exc = NoExc
\* The pair (destination, source) is a sink and a source of the right
\* matrix, of the left matrix.
RightMatch == In(arch.mtxr_out, DestPath) /\ In(arch.mtxr_in, SrcPath)
LeftMatch == In(arch.mtxl_out, DestPath) /\ In(arch.mtxl_in, SrcPath)
\* The datagram of a one-byte write of value at addr.
WriteDatagram(addr, value) == <<1, addr \div 256, addr % 256, value>>
\* The only ways a call that has a write to issue can fail: the bus is not
\* connected; or, inside a lazy section with the FIFO full, the oldest
\* pending write is found timed out.
BusFailure ==
    \/ arch'.exc = "RuntimeError" /\ ~arch.ser
    \/ /\ arch'.exc = "TimeoutError"
       /\ arch.ser
       /\ arch.lazy_stack > 0
       /\ LazyTimedOut(arch)

\* C24: when exactly one of (destination in right sinks and source in right
\* sources), (destination in left sinks and source in left sources) holds,
\* a sig_connect that returns wrote exactly one datagram to the transport:
\* the one-byte write, at the base of that matrix (0xf100 right, 0xf000
\* left) plus the index of the destination in its sink list, of the index of
\* the source in its source list.  It returns unless the bus fails (not
\* connected, or an older pending write found timed out), in which case
\* nothing was written.
C24_ConnectWritesOneCell ==
    [][(/\ arch'.call.name = "sig_connect"
        /\ HavePaths
        /\ RightMatch # LeftMatch) =>
         IF arch'.exc = NoExc
         THEN arch'.tx =
                IF RightMatch
                THEN <<WriteDatagram(61696 + Index(arch.mtxr_out, DestPath),
                                     Index(arch.mtxr_in, SrcPath))>>
                ELSE <<WriteDatagram(61440 + Index(arch.mtxl_out, DestPath),
                                     Index(arch.mtxl_in, SrcPath))>>
         ELSE BusFailure /\ arch'.tx = <<>>]_vars

\* "/uart0/rx", first sink of the left matrix, was fed with "/io/a0", third
\* source of the left matrix: one write of 2 at 0xf000.
C24_Witness ==
    /\ arch.call.name = "sig_connect"
    /\ arch.call.dest = SignalOf("self", "/uart0/rx")
    /\ arch.call.src = SignalOf("self", "/io/a0")
    /\ arch.exc = NoExc
    /\ arch.tx = <<<<1, 240, 0, 2>>>>
    /\ Declared = Len(Declarations)

\* The destination of the sig_connect that led to the next state is a sink
\* of both matrices.
DestInBothSinks ==
    /\ arch'.call.name = "sig_connect"
    /\ HavePaths
    /\ In(arch.mtxr_out, DestPath)
    /\ In(arch.mtxl_out, DestPath)

\* C25 as stated: sig_connect to a destination that is a sink of both
\* matrices raises the collision error and writes nothing, whatever the
\* source.
C25_SinkOfBothAlwaysCollides ==
    [][DestInBothSinks =>
          arch'.exc = "RuntimeError:ambiguity" /\ arch'.tx = <<>>]_vars

\* C25, amended: sig_connect to a destination that is a sink of both
\* matrices raises the collision error, writing nothing, exactly when the
\* source is a source of both matrices; with a source of no matrix it raises
\* the failed-connection error, writing nothing; with a source of one matrix
\* only it does not raise either error and, when it returns, wrote the one
\* cell of that matrix.
C25_CollisionNeedsSourceOfBoth ==
    [][DestInBothSinks =>
         LET right == In(arch.mtxr_in, SrcPath)
             left == In(arch.mtxl_in, SrcPath)
         IN /\ (right /\ left) =>
                 arch'.exc = "RuntimeError:ambiguity" /\ arch'.tx = <<>>
            /\ (~right /\ ~left) =>
                 arch'.exc = "RuntimeError:connect" /\ arch'.tx = <<>>
            /\ (right # left) =>
                 /\ arch'.exc \in {NoExc, "RuntimeError", "TimeoutError"}
                 /\ arch'.exc = NoExc =>
                      /\ Len(arch'.tx) = 1
                      /\ arch'.tx[1][2] = (IF right THEN 241 ELSE 240)
                 /\ arch'.exc # NoExc => arch'.tx = <<>>]_vars

\* On a connected bus "/dup", sink of both matrices, was asked to be fed
\* with 1, source of both: the collision error was raised, nothing written.
C25_Witness ==
    /\ arch.call.name = "sig_connect"
    /\ arch.call.dest = SignalOf("self", "/dup")
    /\ arch.call.src = IntSignal(1)
    /\ In(arch.mtxr_out, "/dup")
    /\ In(arch.mtxl_out, "/dup")
    /\ arch.ser
    /\ arch.exc = "RuntimeError:ambiguity"
    /\ arch.tx = <<>>

\* A signal that has no path on this board: a Signal of another board, an
\* int other than 0 and 1, an object that is no signal.
Foreign(signal) ==
    \/ signal.t = "Signal" /\ signal.parent # "self"
    \/ signal.t = "int" /\ signal.v \notin {0, 1}
    \/ signal.t \notin {"Signal", "int", "None"}

\* C26: sig_connect raises and writes nothing whenever neither (destination
\* in right sinks and source in right sources) nor (destination in left
\* sinks and source in left sources) holds: ValueError when the destination
\* or the source has no path on this board (Signal of another board, invalid
\* value or type), the invalid-destination error when the destination is in
\* no sink list, the failed-connection error otherwise (source in no source
\* list, or in the source list of the other matrix only).  No response is
\* read and the pending writes of the lazy sections are left as they were.
C26_UnmatchedPairRaises ==
    [][arch'.call.name = "sig_connect" =>
         LET dest == arch'.call.dest
             src == arch'.call.src
             dpath == IF dest.t = "Signal" THEN dest.path
                      ELSE IF dest.t = "int"
                      THEN (IF dest.v = 0 THEN "0" ELSE "1") ELSE "z"
             spath == IF src.t = "Signal" THEN src.path
                      ELSE IF src.t = "int"
                      THEN (IF src.v = 0 THEN "0" ELSE "1") ELSE "z"
             right == In(arch.mtxr_out, dpath) /\ In(arch.mtxr_in, spath)
             left == In(arch.mtxl_out, dpath) /\ In(arch.mtxl_in, spath)
         IN (Foreign(dest) \/ Foreign(src) \/ (~right /\ ~left)) =>
              /\ arch'.exc =
                   IF Foreign(dest) \/ Foreign(src) THEN "ValueError"
                   ELSE IF ~In(arch.mtxr_out, dpath) /\ ~In(arch.mtxl_out, dpath)
                   THEN "RuntimeError:destination"
                   ELSE "RuntimeError:connect"
              /\ arch'.tx = <<>>
              /\ arch'.rx = 0
              /\ arch'.lazy_writes = arch.lazy_writes
              /\ arch'.lazy_fifo_total_size = arch.lazy_fifo_total_size]_vars

\* On a connected bus with every signal declared, "/uart0/rx", a sink of the
\* left matrix, was asked to be fed with "/uart0/tx", a source of the right
\* matrix: the failed-connection error was raised and nothing written.
C26_Witness ==
    /\ arch.call.name = "sig_connect"
    /\ arch.call.dest = SignalOf("self", "/uart0/rx")
    /\ arch.call.src = SignalOf("self", "/uart0/tx")
    /\ In(arch.mtxl_out, "/uart0/rx")
    /\ In(arch.mtxr_in, "/uart0/tx")
    /\ Declared = Len(Declarations)
    /\ arch.ser
    /\ arch.exc = "RuntimeError:connect"
    /\ arch.tx = <<>>

\* The datagrams that zero every cell of both matrices: the left ones in the
\* order of the left sink list, then the right ones.
AllCellsZeroed ==
    [i \in 1..(Len(arch.mtxl_out) + Len(arch.mtxr_out)) |->
        IF i <= Len(arch.mtxl_out)
        THEN WriteDatagram(61440 + i - 1, 0)
        ELSE WriteDatagram(61696 + i - Len(arch.mtxl_out) - 1, 0)]
\* a is a prefix of b, and shorter.
ProperPrefix(a, b) == Len(a) < Len(b) /\ a = SubSeq(b, 1, Len(a))

\* C27: a sig_disconnect_all that returns wrote exactly one datagram per cell
\* of both matrices: the one-byte write of 0 at 0xf000 + i for every index i
\* of the left sink list and at 0xf100 + j for every index j of the right
\* sink list, and nothing else; called outside any lazy section it has read
\* one acknowledgement per cell and left no write pending.  It returns
\* unless the bus fails (not connected, or an older pending write found
\* timed out), in which case what it wrote is a proper prefix of these
\* datagrams.  The depth of lazy sections is as it was in both cases.
C27_DisconnectAllZeroesEveryCell ==
    [][arch'.call.name = "sig_disconnect_all" =>
         /\ arch'.lazy_stack = arch.lazy_stack
         /\ IF arch'.exc = NoExc
            THEN /\ arch'.tx = AllCellsZeroed
                 /\ \A i, j \in DOMAIN arch'.tx :
                       i # j => arch'.tx[i] # arch'.tx[j]
                 /\ arch.lazy_stack = 0 =>
                       /\ arch'.rx = Len(AllCellsZeroed)
                       /\ arch'.lazy_writes = <<>>
            ELSE /\ BusFailure
                 /\ ProperPrefix(arch'.tx, AllCellsZeroed)]_vars

\* With the two sinks of each matrix declared, sig_disconnect_all wrote 0 at
\* 0xf000, 0xf001, 0xf100 and 0xf101 and read four acknowledgements.
C27_Witness ==
    /\ arch.call.name = "sig_disconnect_all"
    /\ arch.exc = NoExc
    /\ Declared = Len(Declarations)
    /\ arch.tx = <<<<1, 240, 0, 0>>, <<1, 240, 1, 0>>,
                   <<1, 241, 0, 0>>, <<1, 241, 1, 0>>>>
    /\ arch.rx = 4
    /\ arch.lazy_stack = 0

\* No identifier occurs twice in a sequence.
NoDuplicate(seq) == \A i, j \in DOMAIN seq : i # j => seq[i] # seq[j]

\* C28: no operation is written to the transport twice, is twice in the
\* unresolved queue or is resolved twice, whatever calls failed before.
C28_NothingSubmittedTwice ==
    /\ NoDuplicate(sent)
    /\ NoDuplicate(operations)
    /\ NoDuplicate(resolved)

\* C29: whenever the buffer-wait nesting depth is 0 the list of buffered
\* operations is empty, also after an outermost exit that failed.
C29_NoBufferOutsideSections ==
    buffer_wait_stack = 0 => buffer_wait_operations = <<>>

\* Calls that wait for the result of the operation they submitted.
Waiting == {"read", "get", "Register.read"}

\* The i-th event of a call is a resolution forced by a datagram that did not
\* fit: a read of the transport with a write after it.  In a call that waits
\* for its result the reads after its first write are that wait.
Forced(w, name, i) ==
    /\ IsRead(w[i])
    /\ \E j \in DOMAIN w : j > i /\ IsWrite(w[j])
    /\ name \in Waiting => \A k \in 1..i : IsRead(w[k])

\* The length of the first datagram written after the i-th event.
NextWritten(w, i) ==
    LET j == CHOOSE j \in DOMAIN w :
                 /\ j > i /\ IsWrite(w[j])
                 /\ \A k \in (i + 1)..(j - 1) : ~IsWrite(w[k])
    IN w[j].n

\* The queue a call found, followed by what the call wrote since.
QueueThrough(queue, w) ==
    queue \o [k \in DOMAIN SelectSeq(w, IsWrite) |-> SelectSeq(w, IsWrite)[k].id]

\* C30: a resolution forced by a datagram of length n (the whole section,
\* header included, on an outermost exit) happens only while 512 - counter
\* < n, takes the oldest queued operation, and no call but
\* resolve_next_operation itself resolves on an empty queue.
C30_ForcedResolutionIsMinimal ==
    [][/\ \A i \in DOMAIN wire' :
            Forced(wire', call'.args.name, i) =>
              /\ FIFO_SIZE - wire'[i].c <
                    (IF call'.args.name = "pop_buffer_wait"
                     THEN SumDatagrams(objs, buffer_wait_operations) + 3
                     ELSE NextWritten(wire', i))
              /\ Len(SelectSeq(SubSeq(wire', 1, i), IsRead)) <=
                    Len(operations) + Len(SelectSeq(SubSeq(wire', 1, i), IsWrite))
       /\ \A i \in DOMAIN wire' :
            IsRead(wire'[i]) =>
              LET k == Len(SelectSeq(SubSeq(wire', 1, i), IsRead))
                  queue == QueueThrough(operations, wire')
              IN k <= Len(queue) /\ wire'[i].id = queue[k]
       /\ call'.args.name # "resolve_next_operation" =>
            call'.exc # "IndexError"]_vars

\* A write found two operations queued and 268 bytes in flight; its 259
\* bytes needed one resolution, of the older one, and the newer one is still
\* queued before it.
C30_Witness ==
    /\ call.args.name = "write"
    /\ call.exc = NoExc
    /\ Len(wire) = 2
    /\ IsRead(wire[1]) /\ IsWrite(wire[2])
    /\ FIFO_SIZE - wire[1].c < wire[2].n
    /\ Len(operations) = 2
    /\ wire[1].id < operations[1]

\* C31: on an outermost exit every forced resolution precedes the header:
\* the first datagram written is the header and no read of the transport
\* follows a write, so header and buffered datagrams go out back-to-back.
C31_BatchWrittenBackToBack ==
    call.args.name = "pop_buffer_wait" =>
        /\ \A i, j \in DOMAIN wire :
              (IsWrite(wire[i]) /\ i < j) => IsWrite(wire[j])
        /\ \A i \in DOMAIN wire :
              (IsWrite(wire[i]) /\ \A k \in 1..(i - 1) : IsRead(wire[k])) =>
                  objs[wire[i].id].op.kind = "buffer_wait"

\* An outermost exit that had to resolve a queued operation first, then wrote
\* the header and a buffered write of 259 bytes.
C31_Witness ==
    /\ call.args.name = "pop_buffer_wait"
    /\ call.exc = NoExc
    /\ Len(wire) = 3
    /\ IsRead(wire[1]) /\ IsWrite(wire[2]) /\ IsWrite(wire[3])
    /\ objs[wire[2].id].op.kind = "buffer_wait"
    /\ wire[3].n = 259

\* The response size the wire protocol defines for each kind of operation.
AckSize(op) ==
    CASE op.kind = "write" -> 1
      [] op.kind = "read" -> op.size + 1
      [] op.kind = "timeout" -> 0
      [] op.kind = "delay" -> 1
      [] op.kind = "buffer_wait" -> 1

\* C32: resolve_next_operation on a queue that is not empty reads the
\* transport once, for the response size of the oldest operation, removes
\* that operation from the head of the queue and deducts its datagram length
\* from the counter; the other operations keep position and status.
C32_ResolveTakesOneResponse ==
    [][(call'.args.name = "resolve_next_operation" /\ operations # <<>>) =>
         LET id == Head(operations)
             op == objs[id].op
         IN /\ call'.exc = NoExc
            /\ wire' = <<ReadEvent(id, AckSize(op), fifo_size)>>
            /\ operations' = Tail(operations)
            /\ fifo_size' = fifo_size - Len(Datagram(op))
            /\ resolved' = Append(resolved, id)
            /\ objs[id].status = "SENT"
            /\ objs'[id].status \in {"COMPLETED", "TIMEOUT"}
            /\ \A k \in DOMAIN operations' :
                  objs'[operations'[k]].status = "SENT"
            /\ buffer_wait_operations' = buffer_wait_operations
            /\ \A k \in DOMAIN buffer_wait_operations :
                  objs'[buffer_wait_operations[k]].status = "PENDING"]_vars

\* A read of two bytes was resolved by a transport read of three bytes while
\* another operation stays queued.
C32_Witness ==
    /\ call.args.name = "resolve_next_operation"
    /\ call.exc = NoExc
    /\ Len(wire) = 1
    /\ wire[1].n = 3
    /\ objs[wire[1].id].op.kind = "read"
    /\ operations # <<>>

\* The datagram of an operation decodes to the operation: command byte,
\* address, polling parameters, size byte and payload at their offsets.
WellEncoded(op) ==
    LET d == Datagram(op)
        rw == IF op.kind = "write" THEN 1 ELSE 0
        polled == op.poll # None
        p == IF polled THEN 4 ELSE 0
        z == IF op.size > 1 THEN 1 ELSE 0
    IN /\ \A i \in DOMAIN d : d[i] \in 0..255
       /\ CASE op.kind \in {"read", "write"} ->
                 /\ Len(d) = 3 + p + z + rw * op.size
                 /\ d[1] = rw + 2 * z + p
                 /\ d[2] * 256 + d[3] = op.addr
                 /\ polled => /\ d[4] * 256 + d[5] = Val(op.poll).addr
                               /\ d[6] = Val(op.poll).mask
                               /\ d[7] = Val(op.poll).value
                 /\ z = 1 => d[3 + p + 1] = op.size
                 /\ rw = 1 => /\ SubSeq(d, 3 + p + z + 1, Len(d)) = op.data
                               /\ Len(op.data) = op.size
            [] op.kind = "timeout" ->
                 /\ Len(d) = 5
                 /\ d[1] = 8
                 /\ ((d[2] * 256 + d[3]) * 256 + d[4]) * 256 + d[5] = op.value
            [] op.kind = "delay" ->
                 /\ Len(d) = 4
                 /\ d[1] = 9
                 /\ (d[2] * 256 + d[3]) * 256 + d[4] = op.value
            [] op.kind = "buffer_wait" ->
                 /\ Len(d) = 3
                 /\ d[1] = 10
                 /\ d[2] * 256 + d[3] = op.value

\* C33: the datagram of every read, write, timeout configuration, delay and
\* buffer-wait operation is the command byte with its size and polling
\* flags, the big-endian address, the polling bytes if any, the size byte if
\* the size exceeds 1 and the payload of a write; 0x08, 0x09 and 0x0a are
\* followed by 4, 3 and 2 big-endian bytes.
C33_DatagramEncoding ==
    \A id \in DOMAIN objs :
        /\ WellEncoded(objs[id].op)
        /\ objs[id].op.kind \in {"read", "write"} =>
              /\ objs[id].op.addr \in 0..65535
              /\ objs[id].op.size \in 1..255

\* A polled write of 255 bytes at 0x0100 is queued: command byte 7, address,
\* polling address, mask and value, size byte, payload; a timeout
\* configuration of four significant bytes is queued too.
C33_Witness ==
    /\ \E id \in DOMAIN objs :
          /\ objs[id].op.kind = "write"
          /\ objs[id].op.poll = PollX
          /\ Datagram(objs[id].op) =
                <<7, 1, 0, 4, 3, 240, 33, 255>> \o Pattern(255)
    /\ \E id \in DOMAIN objs :
          Datagram(objs[id].op) = <<8, 1, 2, 3, 4>>

\* An operation of a kind is found timed out in the step.
TimesOut(id, kind) ==
    /\ objs'[id].op.kind = kind
    /\ objs'[id].status = "TIMEOUT"
    /\ id <= Len(objs) => objs[id].status = "SENT"

C35_ReadInsideSectionStaysBuffered ==
    [][/\ (/\ call'.args.name = "read"
            /\ buffer_wait_stack > 0
            /\ connected
            /\ call'.args.size >= 1
            /\ ReadWriteInitExc(call'.args.addr) = NoExc
            /\ SetPollingExc(call'.args.poll) = NoExc) =>
              /\ call'.exc = "RuntimeError"
              /\ wire' = <<>>
              /\ Len(objs') = Len(objs) + 1
              /\ objs'[Len(objs')].op.kind = "read"
              /\ objs'[Len(objs')].status = "PENDING"
              /\ buffer_wait_operations' =
                    Append(buffer_wait_operations, Len(objs'))
              /\ UNCHANGED <<operations, fifo_size, buffer_wait_stack, sent>>
       /\ (/\ call'.args.name = "pop_buffer_wait"
            /\ buffer_wait_stack = 1
            /\ call'.exc = NoExc) =>
              /\ Ids(SelectSeq(wire', IsWrite)) =
                    <<Len(objs')>> \o buffer_wait_operations
              /\ \A k \in DOMAIN buffer_wait_operations :
                    objs'[buffer_wait_operations[k]].status = "SENT"]_vars

\* The outermost exit wrote, after its header, the 3-byte datagram of a read
\* that was requested, and refused, inside the section.
C35_Witness ==
    /\ call.args.name = "pop_buffer_wait"
    /\ call.exc = NoExc
    /\ \E i \in DOMAIN wire :
          /\ i > 1
          /\ IsWrite(wire[i])
          /\ objs[wire[i].id].op.kind = "read"
          /\ objs[wire[i].id].status = "SENT"
          /\ wire[i].n = 3

\* The counter after the last transport event of a call that found it at c.
CounterAfter(w, heap, c) ==
    IF w = <<>> THEN c
    ELSE LET e == w[Len(w)]
         IN IF IsWrite(e) THEN e.c + e.n
            ELSE e.c - Len(Datagram(heap[e.id].op))

\* C36: a failure of the transport ends the call with that failure.  The
\* operations whose response was read before it are resolved, those whose
\* datagram was written before it are queued, and nothing else changed: the
\* operation whose response could not be read is still the head of the
\* queue, SENT, and the operation whose datagram could not be written is
\* neither queued nor counted.
C36_TransportErrorKeepsAccounting ==
    [][/\ (/\ call'.args.name = "resolve_next_operation"
            /\ call'.args.rfault = 1
            /\ operations # <<>>) =>
              /\ call'.exc = "SerialException"
              /\ wire' = <<>>
              /\ objs'[Head(operations)].status = "SENT"
              /\ UNCHANGED <<operations, fifo_size, resolved, sent>>
       /\ (/\ call'.args.name = "write"
            /\ call'.args.fault = 1
            /\ call'.args.rfault = 0
            /\ connected
            /\ buffer_wait_stack = 0) =>
              /\ call'.exc = "SerialException"
              /\ sent' = sent
              /\ Len(objs') = Len(objs) + 1
       /\ call'.exc = "SerialException" =>
            LET reads == Ids(SelectSeq(wire', IsRead))
                writes == Ids(SelectSeq(wire', IsWrite))
                queue == operations \o writes
            IN /\ operations' = SubSeq(queue, Len(reads) + 1, Len(queue))
               /\ resolved' = resolved \o reads
               /\ sent' = sent \o writes
               /\ fifo_size' = CounterAfter(wire', objs', fifo_size)
               /\ fifo_size' = SumDatagrams(objs', operations')
               /\ \A k \in DOMAIN operations' :
                     objs'[operations'[k]].status = "SENT"
               /\ \A id \in (Len(objs) + 1)..Len(objs') :
                     id \notin Range(writes) =>
                         /\ objs'[id].status = "PENDING"
                         /\ id \notin Range(operations')]_vars

\* A write of 256 bytes whose first datagram needed a resolution and whose
\* second datagram the serial port refused: the first chunk is queued, the
\* second is not.
C36_Witness ==
    /\ call.args.name = "write"
    /\ call.exc = "SerialException"
    /\ call.args.fault = 2
    /\ Len(wire) = 2
    /\ IsRead(wire[1]) /\ IsWrite(wire[2])
    /\ operations = <<Len(objs) - 1>>
    /\ objs[Len(objs)].status = "PENDING"
    /\ fifo_size = 259

\* The serial port failed while resolve_next_operation read the response of
\* the oldest of two queued operations, which are both still queued.
ReadFailureKeepsHead ==
    /\ call.args.name = "resolve_next_operation"
    /\ call.exc = "SerialException"
    /\ Len(operations) = 2
    /\ objs[operations[1]].status = "SENT"

\* C37: a timeout section leaves the timeout stack as deep as it found it
\* and the timeout that was in force, whether its body completes or raises
\* and whether or not its push succeeded.
C37_SectionRestores ==
    [][call'.args.name = "timeout_section" =>
         /\ Len(timeout_stack') = Len(timeout_stack)
         /\ cache_timeout' = cache_timeout]_vars


\* Bit j of n, and the value whose bits are those of bits where mask has a
\* one and those of c elsewhere, over the bits 0..j.
BitOf(n, j) == (n \div (2 ^ j)) % 2
RECURSIVE MergedValue(_, _, _, _)
MergedValue(c, bits, mask, j) ==
    IF j < 0 THEN 0
    ELSE (2 ^ j) * (IF BitOf(mask, j) = 1 THEN BitOf(bits, j) ELSE BitOf(c, j))
         + MergedValue(c, bits, mask, j - 1)
BitHelpers == {"or_set", "set_bit", "set_mask"}
\* The bits a helper call selects and the values it asks for them.
HelperMask(a) ==
    CASE a.name = "set_mask" -> a.size
      [] a.name = "set_bit" -> 2 ^ a.size
      [] a.name = "or_set" -> a.value.u
HelperBits(a) ==
    CASE a.name = "set_mask" -> a.value.u
      [] a.name = "set_bit" -> IF a.value.u = 0 THEN 0 ELSE 2 ^ a.size
      [] a.name = "or_set" -> a.value.u
\* get() of the helper returns: from the cache, or from the board.
HelperGetReturns == Val(reg).cache # None \/ (Val(reg).r /\ connected)
\* The value c the helper call found: the cache, or the byte the board
\* answered to the read the call began with.
HelperCurrent ==
    IF Val(reg).cache # None THEN Val(Val(reg).cache)
    ELSE Val(objs'[Len(objs) + 1].result)[1]
NewWrites ==
    {id \in (Len(objs) + 1)..Len(objs') : objs'[id].op.kind = "write"}

\* C38: on a register that is not volatile and whose get() returns c, each
\* of set_mask, set_bit and or_set hands set() the value that has the
\* requested bits under the mask and the bits of c elsewhere.  When that
\* value is within the bounds of the register and the register is writable,
\* exactly one write operation is constructed, whose payload denotes that
\* value, and when the call returns the cache holds it; when the value is out
\* of bounds (ValueError) or the register is not writable (RuntimeError), and
\* when get() raises, no write operation is constructed.  get_bit(i) on a
\* filled cache returns bit i of the cache without any transport access.
C38_BitHelpersMerge ==
    [][(reg # None /\ ~Val(reg).volatile) =>
        LET r == Val(reg)
            a == call'.args
        IN /\ (a.name \in BitHelpers /\ ~HelperGetReturns) =>
                /\ call'.exc # NoExc
                /\ NewWrites = {}
                /\ reg' = reg
           /\ (a.name \in BitHelpers /\ HelperGetReturns) =>
                LET c == HelperCurrent
                    v == MergedValue(c, HelperBits(a), HelperMask(a), 16)
                    id == Len(objs')
                IN IF v < r.min_value \/ v > r.max_value
                   THEN /\ call'.exc = "ValueError"
                        /\ NewWrites = {}
                        /\ Val(reg').cache = Some(c)
                   ELSE IF ~r.w
                   THEN /\ call'.exc = "RuntimeError"
                        /\ NewWrites = {}
                        /\ Val(reg').cache = Some(c)
                   ELSE /\ NewWrites = {id}
                        /\ objs'[id].op.addr = r.address
                        /\ objs'[id].op.poll = a.poll
                        /\ Len(objs'[id].op.data) = r.wideness
                        /\ FromBytes(objs'[id].op.data) = v
                        /\ \A j \in 0..16 :
                              BitOf(FromBytes(objs'[id].op.data), j) =
                                 IF BitOf(HelperMask(a), j) = 1
                                 THEN BitOf(HelperBits(a), j) ELSE BitOf(c, j)
                        /\ IF call'.exc = NoExc
                           THEN /\ Val(reg').cache = Some(v)
                                /\ \E i \in 1..Len(wire') :
                                      /\ IsWrite(wire'[i])
                                      /\ wire'[i].id = id
                           ELSE Val(reg').cache = Some(c)
           /\ (a.name = "get_bit" /\ r.cache # None) =>
                /\ call'.exc = NoExc
                /\ call'.ret = Some(BitOf(Val(r.cache), a.size))
                /\ wire' = <<>>
                /\ reg' = reg]_vars

\* A write-only register of two bytes holding 3 was given set_mask(255, 15):
\* one write of 15 went to the board and the cache holds 15.
C38_Witness ==
    /\ call.args.name = "set_mask"
    /\ call.args.value.u = 255
    /\ call.args.size = 15
    /\ call.exc = NoExc
    /\ reg # None
    /\ ~Val(reg).r
    /\ ~Val(reg).volatile
    /\ Val(reg).wideness = 2
    /\ Val(reg).cache = Some(15)
    /\ objs[Len(objs)].op.data = <<0, 15>>
    /\ wire # <<>>

\* C38 as stated: whenever get() returns c, the helper issues one write of
\* the merged value.
C38_HelpersAlwaysWrite ==
    [][(reg # None /\ ~Val(reg).volatile /\ call'.args.name \in BitHelpers
        /\ HelperGetReturns) =>
        /\ NewWrites = {Len(objs')}
        /\ FromBytes(objs'[Len(objs')].op.data) =
              MergedValue(HelperCurrent, HelperBits(call'.args),
                          HelperMask(call'.args), 16)]_vars

\* The rank of the last pending write of the bus of ArchBase whose
\* acknowledgement differs from its size, 0 when there is none.
LastTimedOut ==
    LET late == {i \in DOMAIN arch.lazy_writes :
                    arch.lazy_acks[i] # arch.lazy_writes[i]}
    IN IF late = {} THEN 0 ELSE CHOOSE i \in late : \A j \in late : j <= i

\* C39: lazy_end on the bus of ArchBase.  With no section open it raises
\* RuntimeError and reads nothing.  Leaving an inner section lowers the depth
\* by one, reads nothing and leaves the pending writes and the FIFO total as
\* they were.  Leaving the outermost section reads exactly one
\* acknowledgement for each pending write, timed out or not, leaves no
\* pending write and a FIFO total of 0, and raises TimeoutError exactly when
\* a pending write timed out: the error of the last one that did.
C39_LazyEndDrainsEverything ==
    [][arch'.call.name = "lazy_end" =>
        IF arch.lazy_stack = 0
        THEN /\ arch'.exc = "RuntimeError"
             /\ arch'.rx = 0
             /\ arch'.lazy_stack = 0
             /\ arch'.lazy_writes = arch.lazy_writes
             /\ arch'.lazy_fifo_total_size = arch.lazy_fifo_total_size
        ELSE IF arch.lazy_stack > 1
        THEN /\ arch'.exc = NoExc
             /\ arch'.rx = 0
             /\ arch'.lazy_stack = arch.lazy_stack - 1
             /\ arch'.lazy_writes = arch.lazy_writes
             /\ arch'.lazy_fifo_sizes = arch.lazy_fifo_sizes
             /\ arch'.lazy_fifo_total_size = arch.lazy_fifo_total_size
        ELSE /\ arch'.rx = Len(arch.lazy_writes)
             /\ arch'.lazy_stack = 0
             /\ arch'.lazy_writes = <<>>
             /\ arch'.lazy_fifo_sizes = <<>>
             /\ arch'.lazy_fifo_total_size = 0
             /\ IF LastTimedOut = 0
                THEN arch'.exc = NoExc /\ arch'.last_error = None
                ELSE /\ arch'.exc = "TimeoutError"
                     /\ arch'.last_error =
                           Some(<<arch.lazy_acks[LastTimedOut],
                                  arch.lazy_writes[LastTimedOut]>>)]_vars

\* lazy_end read four acknowledgements and raised the timeout of a two-byte
\* write of which the board took one byte; no write is pending any more.
C39_Witness ==
    /\ arch.call.name = "lazy_end"
    /\ arch.exc = "TimeoutError"
    /\ arch.rx = 4
    /\ arch.last_error = Some(<<1, 2>>)
    /\ arch.lazy_stack = 0
    /\ arch.lazy_writes = <<>>
    /\ arch.lazy_fifo_total_size = 0

\* The summed length of the datagrams of a sequence, and of its first n.
RECURSIVE SumLengths(_, _)
SumLengths(lengths, n) ==
    IF n = 0 THEN 0 ELSE lengths[n] + SumLengths(lengths, n - 1)
\* The lengths of the datagrams the device has or gets during a call inside
\* a lazy section: those counted before it, then those the call wrote.
InDeviceFifo ==
    arch.lazy_fifo_sizes \o [i \in 1..Len(arch'.tx) |-> Len(arch'.tx[i])]

\* C40: while a lazy section of the bus of ArchBase is open, the lazy FIFO
\* total is the summed length of the datagrams written to the transport, of
\* whatever kind, whose acknowledgement has not been consumed.
C40_EveryDatagramCounted ==
    [][(arch.lazy_stack > 0 /\ arch'.lazy_stack > 0) =>
          arch'.lazy_fifo_total_size =
              SumLengths(InDeviceFifo, Len(InDeviceFifo))
                  - SumLengths(InDeviceFifo, arch'.rx)]_vars

=============================================================================
